---- MODULE Spec2Model ----
(***************************************************************************)
(* A model of json.h (RoBaertschi): the value model, the hash map behind   *)
(* json_object and the allocation discipline around them.                  *)
(*                                                                         *)
(* Memory is a set of blocks with identities.  JSON_MALLOC / JSON_CALLOC   *)
(* hand out a fresh block, JSON_FREE records the block as released.  A     *)
(* released block keeps the bytes last written to it (that is what the     *)
(* allocator of test.c, whose JSON_FREE does nothing, leaves behind), so   *)
(* the model can follow the code through a released block and a property   *)
(* can ask separately whether the storage it talks about is released.      *)
(***************************************************************************)
EXTENDS Integers, Sequences, FiniteSets, TLC

\* ------------------------------------------------------------------
\* Configuration macros of json.h and the bounds of the model
\* ------------------------------------------------------------------

\* json.h:45-47 lets the build choose JSON_INITIAL_BUCKET_SIZE (default 16);
\* the model is built with a small one so that growth is reached quickly.
JSON_INITIAL_BUCKET_SIZE == 4

JSON_GROWTH_FACTOR == 2

\* JSON_MAX_LOAD_FACTOR is 0.7, kept as the fraction 7 / 10
JSON_MAX_LOAD_FACTOR_NUM == 7
JSON_MAX_LOAD_FACTOR_DEN == 10

\* sizeof(struct json__hash_map_entry) on an LP64 target: 16 + 24 + 8
SIZEOF_ENTRY == 48

\* the number of API calls of a behaviour whose values are all Strings
MaxOps == 4

\* the number of API calls of a behaviour whose values are of any shape
MaxMixedOps == 3

\* the allocations of one call that are tried as the failing one
MaxFailAt == 12

NULL == 0

\* the address of a local struct json__hash_map (new_hm): not a heap block
STACK_new_hm == -1

\* ------------------------------------------------------------------
\* size_t arithmetic: 64 bits kept as four 16-bit limbs, least first
\* ------------------------------------------------------------------

LIMB == 256 * 256

RECURSIVE XorBits(_, _, _)
XorBits(a, b, n) ==
    IF n = 0 THEN 0
    ELSE ((a + b) % 2) + 2 * XorBits(a \div 2, b \div 2, n - 1)

\* hash * 33, truncated to 64 bits
Mul33(h) ==
    LET t1 == h[1] * 33
        t2 == h[2] * 33 + (t1 \div LIMB)
        t3 == h[3] * 33 + (t2 \div LIMB)
        t4 == h[4] * 33 + (t3 \div LIMB)
    IN  << t1 % LIMB, t2 % LIMB, t3 % LIMB, t4 % LIMB >>

\* h ^ c for an unsigned char c
XorByte(h, c) ==
    << (h[1] \div 256) * 256 + XorBits(h[1] % 256, c, 8), h[2], h[3], h[4] >>

RECURSIVE HashFrom(_, _, _)
HashFrom(hash, str, i) ==
    IF i > Len(str) THEN hash
    ELSE HashFrom(XorByte(Mul33(hash), str[i]), str, i + 1)

\* static size_t json__hash(unsigned char const *str, size_t len)
json__hash(str) == HashFrom(<< 5381, 0, 0, 0 >>, str, 1)

\* hash % m, for m below 2^15
HashMod(h, m) ==
    ((((((h[4] % m) * LIMB + h[3]) % m) * LIMB + h[2]) % m) * LIMB + h[1]) % m

\* ------------------------------------------------------------------
\* The data model
\* ------------------------------------------------------------------

ZeroString == [len |-> 0, data |-> NULL, bytes |-> << >>]
InvalidValue == [type |-> "Invalid"]
NullPtr == [blk |-> NULL, idx |-> 0]
ZeroEntry == [key |-> ZeroString, value |-> InvalidValue, next |-> NullPtr]

\* an entry slot JSON_REALLOC added and nothing has written yet
UninitEntry == [key |-> ZeroString, value |-> [type |-> "Uninit"], next |-> NullPtr]

ZeroSlots(n) == [i \in 1..n |-> ZeroEntry]

json_null == [type |-> "Null"]
json_boolean(b) == [type |-> "Boolean", boolean |-> b]
json_number(n) == [type |-> "Number", number |-> n]
json_string_to_value(str) == [type |-> "String", string |-> str]
json_array_to_value(arr) == [type |-> "Array", array |-> arr]
json_object_to_value(obj) == [type |-> "Object", object |-> obj]

json_array_create == [len |-> 0, items |-> NULL, elems |-> << >>]
json_string_create_empty == ZeroString

\* ------------------------------------------------------------------
\* The allocator.  H is the heap threaded through one call:
\*   mem    the contents of the blocks that hold a map header or entries
\*   live   the blocks allocated and not released
\*   freed  the blocks passed to JSON_FREE (or moved away by JSON_REALLOC)
\*   bad    the addresses passed to JSON_FREE while not allocated
\*   next   the next fresh block
\*   fail   k > 0: the k-th allocation from now fails; 0: none fails
\*   reloc  whether JSON_REALLOC moves the block it enlarges
\*   ub     the call dereferenced a null or wild pointer
\*   m0null whether an allocation of 0 bytes returns NULL
\*   frees  the number of JSON_FREE calls made, whatever their argument
\* ------------------------------------------------------------------

Tick(H) == [H EXCEPT !.fail = IF @ > 0 THEN @ - 1 ELSE 0]

\* JSON_MALLOC: a fresh block holding `content`, or NULL
JSON_MALLOC(H, content) ==
    IF H.fail = 1 THEN [H |-> Tick(H), p |-> NULL]
    ELSE [H |-> [Tick(H) EXCEPT !.next = @ + 1,
                                !.live = @ \cup {H.next},
                                !.mem = (H.next :> content) @@ @],
          p |-> H.next]

\* JSON_CALLOC of count entries: all slots zero
JSON_CALLOC(H, count) == JSON_MALLOC(H, [slots |-> ZeroSlots(count)])

\* JSON_FREE
JSON_FREE(H, p) ==
    IF p = NULL THEN [H EXCEPT !.frees = @ + 1]
    ELSE IF p \in H.live
    THEN [H EXCEPT !.live = @ \ {p}, !.freed = @ \cup {p}, !.frees = @ + 1]
    ELSE [H EXCEPT !.bad = @ \cup {p}, !.frees = @ + 1]

\* JSON_REALLOC of an entries block to count slots
JSON_REALLOC(H, p, count) ==
    LET old == IF p = NULL THEN << >> ELSE H.mem[p].slots
        grown == [i \in 1..count |-> IF i <= Len(old) THEN old[i] ELSE UninitEntry]
    IN  IF H.fail = 1 THEN [H |-> Tick(H), p |-> NULL]
        ELSE IF H.reloc \/ p = NULL
        THEN [H |-> [Tick(H) EXCEPT !.next = @ + 1,
                                    !.live = (@ \ {p}) \cup {H.next},
                                    !.freed = @ \cup {p},
                                    !.mem = (H.next :> [slots |-> grown]) @@ @],
              p |-> H.next]
        ELSE [H |-> [Tick(H) EXCEPT !.mem[p] = [slots |-> grown]], p |-> p]

Undefined(H) == [H EXCEPT !.ub = TRUE]

\* ------------------------------------------------------------------
\* Strings
\* ------------------------------------------------------------------

\* json_string_create after its JSON_MALLOC: a is what the allocator returned
json_string_create_from(a, bytes) ==
    IF a.p = NULL
    THEN [H |-> a.H, s |-> [len |-> 0, data |-> NULL, bytes |-> << >>],
          ok |-> FALSE]
    ELSE [H |-> a.H,
          s |-> [len |-> Len(bytes), data |-> a.p, bytes |-> bytes],
          ok |-> TRUE]

\* struct json_string json_string_create(str, len, ok)
json_string_create(H, bytes) ==
    IF Len(bytes) <= 0
    THEN [H |-> H, s |-> json_string_create_empty, ok |-> TRUE]
    ELSE json_string_create_from(JSON_MALLOC(H, [bytes |-> bytes]), bytes)

json_string_copy(H, str) == json_string_create(H, str.bytes)

json_string_delete(H, string) ==
    IF 0 < string.len THEN JSON_FREE(H, string.data) ELSE H

json_string_eq(first, second) ==
    /\ first.len = second.len
    /\ \A i \in 1..first.len : first.bytes[i] = second.bytes[i]

json__hash_map_entry_valid(entry) == entry.value.type # "Invalid"

\* ------------------------------------------------------------------
\* Pointers to entries: a block and a 0-based index into its slots
\* ------------------------------------------------------------------

\* what a pointer computed from unrelated arrays designates
WildPtr == [blk |-> NULL, idx |-> 1]

SlotOK(H, p) ==
    /\ p.blk \in DOMAIN H.mem
    /\ "slots" \in DOMAIN H.mem[p.blk]
    /\ p.idx >= 0
    /\ p.idx < Len(H.mem[p.blk].slots)

Slot(H, p) == H.mem[p.blk].slots[p.idx + 1]

SetSlot(H, p, e) ==
    IF SlotOK(H, p) THEN [H EXCEPT !.mem[p.blk].slots[p.idx + 1] = e]
    ELSE Undefined(H)

\* *mp is a struct json__hash_map
IsMap(H, mp) == mp \in DOMAIN H.mem /\ "hm" \in DOMAIN H.mem[mp]

RECURSIVE json_value_delete(_, _)
RECURSIVE json_value_copy(_, _, _)
RECURSIVE json__hash_map_copy(_, _)
RECURSIVE json__hash_map_insert(_, _, _, _, _)
RECURSIVE json__hash_map_grow(_, _, _)

\* ------------------------------------------------------------------
\* Deleting values
\* ------------------------------------------------------------------

\* void json_object_delete(struct json_object object) {}
json_object_delete(H, object) == H

RECURSIVE DeleteItems(_, _, _)
DeleteItems(H, elems, i) ==
    IF i > Len(elems) THEN H
    ELSE DeleteItems(json_value_delete(H, elems[i]), elems, i + 1)

\* void json_array_delete(struct json_array array)
json_array_delete(H, array) ==
    JSON_FREE(DeleteItems(H, array.elems, 1), array.items)

\* void json_value_delete(struct json_value value)
json_value_delete(H, value) ==
    CASE value.type = "Object" -> json_object_delete(H, value.object)
      [] value.type = "Array" -> json_array_delete(H, value.array)
      [] value.type = "String" -> json_string_delete(H, value.string)
      [] value.type \in {"Number", "Boolean", "Null", "Invalid"} -> H
      [] OTHER -> Undefined(H)

\* static void json__hash_map_entry_delete(struct json__hash_map_entry *entry)
json__hash_map_entry_delete(H, entry) ==
    json_value_delete(json_string_delete(H, entry.key), entry.value)

\* one loop of json__hm_delete: the slots i .. n-1 of block blk
RECURSIVE DeleteSlots(_, _, _, _)
DeleteSlots(H, blk, i, n) ==
    IF i >= n \/ H.ub THEN H
    ELSE IF ~SlotOK(H, [blk |-> blk, idx |-> i]) THEN Undefined(H)
    ELSE IF json__hash_map_entry_valid(Slot(H, [blk |-> blk, idx |-> i]))
    THEN DeleteSlots(json__hash_map_entry_delete(H, Slot(H, [blk |-> blk, idx |-> i])),
                     blk, i + 1, n)
    ELSE DeleteSlots(H, blk, i + 1, n)

\* the end of json__hm_delete: JSON_FREE of the two arrays and of map
json__hm_delete_arrays(H, map, mp) ==
    JSON_FREE(JSON_FREE(JSON_FREE(H, map.collisions), map.bucket), mp)

\* static void json__hm_delete(struct json__hash_map *map); mp is the
\* address of *map
json__hm_delete(H, map, mp) ==
    json__hm_delete_arrays(
        DeleteSlots(DeleteSlots(H, map.collisions, 0, map.collisions_size),
                    map.bucket, 0, map.bucket_cap),
        map, mp)

\* ------------------------------------------------------------------
\* Copying values
\* ------------------------------------------------------------------

\* json_array_copy after its JSON_MALLOC
json_array_copy_from(a, arr) ==
    IF a.p = NULL
    THEN [H |-> a.H, arr |-> json_array_create, ok |-> FALSE]
    ELSE [H |-> a.H,
          arr |-> [len |-> arr.len, items |-> a.p, elems |-> arr.elems],
          ok |-> TRUE]

\* struct json_array json_array_copy(struct json_array arr, bool *ok):
\* the items are copied as they are, member by member
json_array_copy(H, arr) ==
    json_array_copy_from(
        IF arr.len = 0 /\ H.m0null /\ H.fail # 1
        THEN [H |-> Tick(H), p |-> NULL]
        ELSE JSON_MALLOC(H, [items |-> arr.elems]),
        arr)

\* json_object_copy after json__hash_map_copy
json_object_copy_from(c) == [H |-> c.H, obj |-> [_hm |-> c.p], ok |-> c.p # NULL]

\* struct json_object json_object_copy(struct json_object obj, bool *ok)
json_object_copy(H, obj) == json_object_copy_from(json__hash_map_copy(H, obj._hm))

\* the three allocating cases of json_value_copy, after the copy is made
json_value_copy_object(c) ==
    [H |-> c.H, v |-> json_object_to_value(c.obj), ok |-> c.ok]
json_value_copy_array(c) ==
    [H |-> c.H, v |-> json_array_to_value(c.arr), ok |-> c.ok]
json_value_copy_string(c) ==
    [H |-> c.H, v |-> json_string_to_value(c.s), ok |-> c.ok]

\* struct json_value json_value_copy(struct json_value value, bool *ok);
\* ok is the flag as the caller left it: the scalar cases do not write it
json_value_copy(H, value, ok) ==
    CASE value.type = "Object" ->
            json_value_copy_object(json_object_copy(H, value.object))
      [] value.type = "Array" ->
            json_value_copy_array(json_array_copy(H, value.array))
      [] value.type = "String" ->
            json_value_copy_string(json_string_copy(H, value.string))
      [] OTHER -> [H |-> H, v |-> value, ok |-> ok]

\* ------------------------------------------------------------------
\* The hash map.  A map is the record of the fields of
\* struct json__hash_map; its two arrays are blocks of H.mem.
\* ------------------------------------------------------------------

NewMap(bucket, collisions, cap) ==
    [bucket |-> bucket, bucket_size |-> 0, bucket_cap |-> cap,
     collisions |-> collisions, collisions_size |-> 0, collisions_cap |-> cap]

\* json__hm_create that forgets the blocks it holds when collisions fails
json__hm_create_collisions_Leak(c, ptr, bucket) ==
    IF c.p = NULL THEN [H |-> c.H, p |-> NULL]
    ELSE [H |-> [c.H EXCEPT !.mem[ptr] =
                     [hm |-> NewMap(bucket, c.p, JSON_INITIAL_BUCKET_SIZE)]],
          p |-> ptr]

\* json__hm_create from the allocation of collisions on
json__hm_create_collisions(c, ptr, bucket) ==
    IF c.p = NULL
    THEN [H |-> JSON_FREE(JSON_FREE(c.H, ptr), bucket), p |-> NULL]
    ELSE [H |-> [c.H EXCEPT !.mem[ptr] =
                     [hm |-> NewMap(bucket, c.p, JSON_INITIAL_BUCKET_SIZE)]],
          p |-> ptr]

\* json__hm_create from the allocation of bucket on
json__hm_create_bucket(b, ptr) ==
    IF b.p = NULL THEN [H |-> JSON_FREE(b.H, ptr), p |-> NULL]
    ELSE json__hm_create_collisions(JSON_CALLOC(b.H, JSON_INITIAL_BUCKET_SIZE),
                                    ptr, b.p)

\* json__hm_create from the allocation of the header on
json__hm_create_ptr(a) ==
    IF a.p = NULL THEN [H |-> a.H, p |-> NULL]
    ELSE json__hm_create_bucket(JSON_CALLOC(a.H, JSON_INITIAL_BUCKET_SIZE), a.p)

\* static struct json__hash_map *json__hm_create(void)
json__hm_create(H) ==
    json__hm_create_ptr(JSON_MALLOC(H, [hm |-> NewMap(NULL, NULL, 0)]))

\* json_object_create after json__hm_create
json_object_create_from(c) == [H |-> c.H, obj |-> [_hm |-> c.p], ok |-> c.p # NULL]

\* struct json_object json_object_create(bool *ok)
json_object_create(H) == json_object_create_from(json__hm_create(H))

\* the keys the caller uses: "", "h", "p" (one home bucket while bucket_cap
\* is 4 or 8) and "a"
Keys == { << >>, << 104 >>, << 112 >>, << 97 >> }

\* json__hash of the caller's keys, computed once
KeyHash == [k \in Keys |-> json__hash(k)]

Hash(bytes) == IF bytes \in Keys THEN KeyHash[bytes] ELSE json__hash(bytes)

\* hash % hm->bucket_cap as a pointer to the home bucket
HomeBucket(hm, key) ==
    [blk |-> hm.bucket, idx |-> HashMod(Hash(key.bytes), hm.bucket_cap)]

\* json__hash_map_get without its loop over the chain
ChainFind_HeadOnly(H, entry, key) == NullPtr

\* while (entry->next != NULL) { entry = entry->next; if (eq) return entry; }
RECURSIVE ChainFind(_, _, _)
ChainFind(H, entry, key) ==
    LET next == Slot(H, entry).next
    IN  IF next = NullPtr THEN NullPtr
        ELSE IF ~SlotOK(H, next) THEN WildPtr
        ELSE IF json_string_eq(Slot(H, next).key, key) THEN next
        ELSE ChainFind(H, next, key)

\* json__hash_map_get from entry = &hm->bucket[index] on
json__hash_map_get_at(H, entry, key) ==
    IF ~SlotOK(H, entry) THEN WildPtr
    ELSE IF ~json__hash_map_entry_valid(Slot(H, entry)) THEN NullPtr
    ELSE IF json_string_eq(Slot(H, entry).key, key) THEN entry
    ELSE ChainFind(H, entry, key)

\* static struct json__hash_map_entry *json__hash_map_get(hm, key)
json__hash_map_get(H, hm, key) ==
    json__hash_map_get_at(H, HomeBucket(hm, key), key)

\* while (entry->next != NULL) entry = entry->next;
RECURSIVE ChainEnd(_, _)
ChainEnd(H, entry) ==
    LET next == Slot(H, entry).next
    IN  IF next = NullPtr THEN entry
        ELSE IF ~SlotOK(H, next) THEN WildPtr
        ELSE ChainEnd(H, next)

\* static double json__hash_map_load_factor(hm) > JSON_MAX_LOAD_FACTOR
OverLoadFactor(hm) ==
    hm.bucket_size * JSON_MAX_LOAD_FACTOR_DEN
        > JSON_MAX_LOAD_FACTOR_NUM * hm.bucket_cap

\* the insert returns true whatever json__hash_map_grow returned
InsertGrown(g) == [H |-> g.H, hm |-> g.hm, ok |-> TRUE]

\* json__hash_map_insert without the growth at its end
InsertCounted_NoGrow(H, hm, mp) == [H |-> H, hm |-> hm, ok |-> TRUE]

\* if (load_factor(hm) > JSON_MAX_LOAD_FACTOR) json__hash_map_grow(hm);
InsertCounted(H, hm, mp) ==
    IF OverLoadFactor(hm) THEN InsertGrown(json__hash_map_grow(H, hm, mp))
    ELSE [H |-> H, hm |-> hm, ok |-> TRUE]

\* the end of json__hash_map_insert: hm->bucket_size += 1, then the growth
InsertTail(H, hm, mp) ==
    InsertCounted(H, [hm EXCEPT !.bucket_size = @ + 1], mp)

\* InsertLinked with the link taken after collisions_size was incremented
InsertLinked_PastEnd(H, hm, mp, last) ==
    IF H.ub \/ ~SlotOK(H, last)
    THEN [H |-> Undefined(H), hm |-> hm, ok |-> FALSE]
    ELSE InsertTail([H EXCEPT !.mem[last.blk].slots[last.idx + 1].next =
                        [blk |-> hm.collisions,
                         idx |-> hm.collisions_size + 1]],
                    [hm EXCEPT !.collisions_size = @ + 1], mp)

\* entry->next = &hm->collisions[hm->collisions_size]; collisions_size += 1:
\* H has the new entry written, last is the end of the chain found before
InsertLinked(H, hm, mp, last) ==
    IF H.ub \/ ~SlotOK(H, last)
    THEN [H |-> Undefined(H), hm |-> hm, ok |-> FALSE]
    ELSE InsertTail([H EXCEPT !.mem[last.blk].slots[last.idx + 1].next =
                        [blk |-> hm.collisions, idx |-> hm.collisions_size]],
                    [hm EXCEPT !.collisions_size = @ + 1], mp)

\* hm->collisions[hm->collisions_size] = new_entry
InsertLink(H, hm, mp, new_entry, last) ==
    InsertLinked(SetSlot(H, [blk |-> hm.collisions, idx |-> hm.collisions_size],
                         new_entry),
                 hm, mp, last)

\* after JSON_REALLOC of the collisions array: collisions_cap = new_size
InsertEnlarged(r, hm, mp, new_entry, last) ==
    IF r.p = NULL THEN [H |-> r.H, hm |-> hm, ok |-> FALSE]
    ELSE InsertLink(r.H,
                    [hm EXCEPT !.collisions = r.p,
                               !.collisions_cap =
                                   hm.collisions_cap * JSON_GROWTH_FACTOR
                                       * SIZEOF_ENTRY],
                    mp, new_entry, last)

\* the home bucket is taken: last is the end of its chain
InsertChained(H, hm, mp, new_entry, last) ==
    IF hm.collisions_cap <= hm.collisions_size + 1
    THEN InsertEnlarged(JSON_REALLOC(H, hm.collisions,
                                     hm.collisions_cap * JSON_GROWTH_FACTOR),
                        hm, mp, new_entry, last)
    ELSE InsertLink(H, hm, mp, new_entry, last)

\* entry = &hm->bucket[index]
InsertAt(H, hm, mp, new_entry, entry) ==
    IF ~SlotOK(H, entry) THEN [H |-> Undefined(H), hm |-> hm, ok |-> FALSE]
    ELSE IF json__hash_map_entry_valid(Slot(H, entry))
    THEN InsertChained(H, hm, mp, new_entry, ChainEnd(H, entry))
    ELSE InsertTail(SetSlot(H, entry, new_entry), hm, mp)

\* InsertKey that counts the entry before it tests the key copy
InsertKey_CountsFailure(kc, hm, mp, value) ==
    IF ~kc.ok
    THEN [H |-> kc.H, hm |-> [hm EXCEPT !.bucket_size = @ + 1], ok |-> FALSE]
    ELSE InsertAt(kc.H, hm, mp,
                  [key |-> kc.s, value |-> value, next |-> NullPtr],
                  HomeBucket(hm, kc.s))

\* after the key copy kc: if (!ok) return false
InsertKey(kc, hm, mp, value) ==
    IF ~kc.ok THEN [H |-> kc.H, hm |-> hm, ok |-> FALSE]
    ELSE InsertAt(kc.H, hm, mp,
                  [key |-> kc.s, value |-> value, next |-> NullPtr],
                  HomeBucket(hm, kc.s))

\* static bool json__hash_map_insert(hm, key, value); mp is the address of
\* *hm, the result carries *hm as the call left it
json__hash_map_insert(H, hm, mp, key, value) ==
    InsertKey(json_string_copy(H, key), hm, mp, value)

\* json__hash_map_grow without its inner loop: only bucket heads move
GrowChain_HeadsOnly(H, new_hm, entry) == [H |-> H, hm |-> new_hm, ok |-> TRUE]

RECURSIVE GrowChain(_, _, _)

\* after the re-insertion i of the entry `next` of a chain
GrowChainNext(i, next) == IF ~i.ok THEN i ELSE GrowChain(i.H, i.hm, next)

\* the re-insertion of one old chain, from the entry after `entry` on
GrowChain(H, new_hm, entry) ==
    LET next == Slot(H, entry).next
    IN  IF next = NullPtr THEN [H |-> H, hm |-> new_hm, ok |-> TRUE]
        ELSE IF ~SlotOK(H, next)
        THEN [H |-> Undefined(H), hm |-> new_hm, ok |-> FALSE]
        ELSE GrowChainNext(
                json__hash_map_insert(H, new_hm, STACK_new_hm,
                                      Slot(H, next).key, Slot(H, next).value),
                next)

RECURSIVE GrowBuckets(_, _, _, _)

\* after the chain of old bucket i is re-inserted
GrowBucketsNext(c, hm, i) ==
    IF ~c.ok THEN c ELSE GrowBuckets(c.H, hm, c.hm, i + 1)

\* after the head of old bucket i is re-inserted
GrowBucketsHead(h, hm, i) ==
    IF ~h.ok THEN h
    ELSE GrowBucketsNext(GrowChain(h.H, h.hm, [blk |-> hm.bucket, idx |-> i]),
                         hm, i)

\* the loop of json__hash_map_grow over the old buckets i .. bucket_cap-1
GrowBuckets(H, hm, new_hm, i) ==
    IF i >= hm.bucket_cap THEN [H |-> H, hm |-> new_hm, ok |-> TRUE]
    ELSE IF ~json__hash_map_entry_valid(Slot(H, [blk |-> hm.bucket, idx |-> i]))
    THEN GrowBuckets(H, hm, new_hm, i + 1)
    ELSE GrowBucketsHead(
            json__hash_map_insert(H, new_hm, STACK_new_hm,
                                  Slot(H, [blk |-> hm.bucket, idx |-> i]).key,
                                  Slot(H, [blk |-> hm.bucket, idx |-> i]).value),
            hm, i)

\* after the loop r: release the new arrays, or json__hm_delete(hm) and
\* *hm = new_hm
GrowDone(r, bucket, collisions, hm, mp) ==
    IF ~r.ok
    THEN [H |-> JSON_FREE(JSON_FREE(r.H, bucket), collisions), hm |-> hm,
          ok |-> FALSE]
    ELSE [H |-> json__hm_delete(r.H, hm, mp), hm |-> r.hm, ok |-> TRUE]

\* after the JSON_CALLOC c of the new collisions array
GrowCollisions(c, bucket, hm, mp) ==
    GrowDone(GrowBuckets(c.H, hm,
                         NewMap(bucket, c.p, hm.bucket_cap * JSON_GROWTH_FACTOR),
                         0),
             bucket, c.p, hm, mp)

\* after the JSON_CALLOC b of the new bucket array
GrowBucket(b, hm, mp) ==
    GrowCollisions(JSON_CALLOC(b.H, hm.bucket_cap * JSON_GROWTH_FACTOR),
                   b.p, hm, mp)

\* static bool json__hash_map_grow(struct json__hash_map *hm)
json__hash_map_grow(H, hm, mp) ==
    GrowBucket(JSON_CALLOC(H, hm.bucket_cap * JSON_GROWTH_FACTOR), hm, mp)

\* json__hash_map_set that never finds the key
json__hash_map_set_NotFound(H, hm, key, value) == [H |-> H, ok |-> FALSE]

\* json__hash_map_set with the entry json__hash_map_get returned
json__hash_map_set_at(H, entry, value) ==
    IF entry = NullPtr THEN [H |-> H, ok |-> FALSE]
    ELSE IF entry = WildPtr THEN [H |-> Undefined(H), ok |-> FALSE]
    ELSE [H |-> [json_value_delete(H, Slot(H, entry).value)
                    EXCEPT !.mem[entry.blk].slots[entry.idx + 1].value = value],
          ok |-> TRUE]

\* static bool json__hash_map_set(hm, key, value)
json__hash_map_set(H, hm, key, value) ==
    json__hash_map_set_at(H, json__hash_map_get(H, hm, key), value)

\* the loop of json__hash_map_delete with entry->next = NULL in place of
\* entry->next = entry->next->next
RECURSIVE ChainDelete_Cut(_, _, _)
ChainDelete_Cut(H, entry, key) ==
    LET next == Slot(H, entry).next
    IN  IF next = NullPtr THEN [H |-> H, ok |-> FALSE]
        ELSE IF ~SlotOK(H, next) THEN [H |-> Undefined(H), ok |-> FALSE]
        ELSE IF json_string_eq(Slot(H, next).key, key)
        THEN [H |-> [json__hash_map_entry_delete(H, Slot(H, next))
                        EXCEPT !.mem[entry.blk].slots[entry.idx + 1].next = NullPtr],
              ok |-> TRUE]
        ELSE ChainDelete_Cut(H, next, key)

\* the loop of json__hash_map_delete over the chain after `entry`
RECURSIVE ChainDelete(_, _, _)
ChainDelete(H, entry, key) ==
    LET next == Slot(H, entry).next
    IN  IF next = NullPtr THEN [H |-> H, ok |-> FALSE]
        ELSE IF ~SlotOK(H, next) THEN [H |-> Undefined(H), ok |-> FALSE]
        ELSE IF json_string_eq(Slot(H, next).key, key)
        THEN [H |-> [json__hash_map_entry_delete(H, Slot(H, next))
                        EXCEPT !.mem[entry.blk].slots[entry.idx + 1].next =
                                   Slot(H, next).next],
              ok |-> TRUE]
        ELSE ChainDelete(H, next, key)

\* the head matched and is released (H): *entry = *entry->next, or zero
json__hash_map_delete_head(H, entry, next) ==
    IF next # NullPtr
    THEN [H |-> IF SlotOK(H, next) THEN SetSlot(H, entry, Slot(H, next))
                ELSE Undefined(H),
          ok |-> TRUE]
    ELSE [H |-> SetSlot(H, entry, ZeroEntry), ok |-> TRUE]

\* json__hash_map_delete from entry = &hm->bucket[index] on
json__hash_map_delete_at(H, entry, key) ==
    IF ~SlotOK(H, entry) THEN [H |-> Undefined(H), ok |-> FALSE]
    ELSE IF json_string_eq(Slot(H, entry).key, key)
    THEN json__hash_map_delete_head(
            json__hash_map_entry_delete(H, Slot(H, entry)),
            entry, Slot(H, entry).next)
    ELSE ChainDelete(H, entry, key)

\* static bool json__hash_map_delete(hm, key)
json__hash_map_delete(H, hm, key) ==
    json__hash_map_delete_at(H, HomeBucket(hm, key), key)

\* new_entry.next = entry.next: the link not moved to the new array
Rebase_Kept(next, old_collisions, new_collisions) == next

\* (entry.next - old_collisions) + new_collisions
Rebase(next, old_collisions, new_collisions) ==
    IF next.blk = old_collisions
    THEN [blk |-> new_collisions, idx |-> next.idx]
    ELSE WildPtr

\* json__hash_map_entry_copy after the value copy v
json__hash_map_entry_copy_value(v, key, next) ==
    IF ~v.ok
    THEN [H |-> json_string_delete(v.H, key),
          e |-> [key |-> key, value |-> v.v, next |-> next],
          ok |-> FALSE]
    ELSE [H |-> v.H, e |-> [key |-> key, value |-> v.v, next |-> next],
          ok |-> TRUE]

\* json__hash_map_entry_copy after the key copy k
json__hash_map_entry_copy_key(k, value, next) ==
    IF ~k.ok
    THEN [H |-> k.H,
          e |-> [key |-> k.s, value |-> InvalidValue, next |-> next],
          ok |-> FALSE]
    ELSE json__hash_map_entry_copy_value(json_value_copy(k.H, value, TRUE),
                                         k.s, next)

\* static struct json__hash_map_entry json__hash_map_entry_copy(
\*     entry, new_collisions, old_collisions, ok)
json__hash_map_entry_copy(H, entry, new_collisions, old_collisions) ==
    IF ~json__hash_map_entry_valid(entry)
    THEN [H |-> H, e |-> ZeroEntry, ok |-> TRUE]
    ELSE json__hash_map_entry_copy_key(
            json_string_copy(H, entry.key), entry.value,
            IF entry.next # NullPtr
            THEN Rebase(entry.next, old_collisions, new_collisions)
            ELSE NullPtr)

RECURSIVE CopySlots(_, _, _, _, _, _, _)

\* if (!ok) { json__hm_delete(&new_hm); return NULL; }, else the next slot
CopySlotsNext(H, ok, src, dst, i, n, new_collisions, old_collisions) ==
    IF ~ok \/ H.ub THEN [H |-> H, ok |-> FALSE]
    ELSE CopySlots(H, src, dst, i + 1, n, new_collisions, old_collisions)

\* dst[i] = c.e: the slot is written before ok is looked at
CopySlotsStore(c, src, dst, i, n, new_collisions, old_collisions) ==
    CopySlotsNext(SetSlot(c.H, [blk |-> dst, idx |-> i], c.e), c.ok,
                  src, dst, i, n, new_collisions, old_collisions)

\* one loop of json__hash_map_copy: dst[i] = entry_copy(src[i]) for i .. n-1
CopySlots(H, src, dst, i, n, new_collisions, old_collisions) ==
    IF i >= n THEN [H |-> H, ok |-> TRUE]
    ELSE IF ~SlotOK(H, [blk |-> src, idx |-> i])
    THEN [H |-> Undefined(H), ok |-> FALSE]
    ELSE CopySlotsStore(
            json__hash_map_entry_copy(H, Slot(H, [blk |-> src, idx |-> i]),
                                      new_collisions, old_collisions),
            src, dst, i, n, new_collisions, old_collisions)

\* struct json__hash_map new_hm = { ... }
CopiedMap(hm, bucket, collisions) ==
    [bucket |-> bucket, bucket_cap |-> hm.bucket_cap,
     bucket_size |-> hm.bucket_size,
     collisions |-> collisions, collisions_cap |-> hm.bucket_cap,
     collisions_size |-> hm.collisions_size]

\* after the JSON_MALLOC m of the header: *ptr = new_hm
json__hash_map_copy_header(m, new_hm) ==
    IF m.p = NULL
    THEN [H |-> json__hm_delete(m.H, new_hm, STACK_new_hm), p |-> NULL]
    ELSE m

\* after the loop l2 over the collisions array
json__hash_map_copy_chained(l2, new_hm) ==
    IF ~l2.ok
    THEN [H |-> json__hm_delete(l2.H, new_hm, STACK_new_hm), p |-> NULL]
    ELSE json__hash_map_copy_header(JSON_MALLOC(l2.H, [hm |-> new_hm]), new_hm)

\* after the loop l1 over the bucket array
json__hash_map_copy_heads(l1, hm, new_hm) ==
    IF ~l1.ok
    THEN [H |-> json__hm_delete(l1.H, new_hm, STACK_new_hm), p |-> NULL]
    ELSE json__hash_map_copy_chained(
            CopySlots(l1.H, hm.collisions, new_hm.collisions, 0,
                      hm.collisions_size, new_hm.collisions, hm.collisions),
            new_hm)

\* after the JSON_CALLOC c of the collisions array
json__hash_map_copy_collisions(c, hm, bucket) ==
    IF c.p = NULL THEN [H |-> JSON_FREE(c.H, bucket), p |-> NULL]
    ELSE json__hash_map_copy_heads(
            CopySlots(c.H, hm.bucket, bucket, 0, hm.bucket_cap, c.p,
                      hm.collisions),
            hm, CopiedMap(hm, bucket, c.p))

\* after the JSON_CALLOC b of the bucket array
json__hash_map_copy_bucket(b, hm) ==
    IF b.p = NULL THEN [H |-> b.H, p |-> NULL]
    ELSE json__hash_map_copy_collisions(JSON_CALLOC(b.H, hm.bucket_cap), hm, b.p)

\* static struct json__hash_map *json__hash_map_copy(struct json__hash_map *hm)
json__hash_map_copy(H, mp) ==
    IF ~IsMap(H, mp) THEN [H |-> Undefined(H), p |-> NULL]
    ELSE json__hash_map_copy_bucket(JSON_CALLOC(H, H.mem[mp].hm.bucket_cap),
                                    H.mem[mp].hm)

\* ------------------------------------------------------------------
\* The object API
\* ------------------------------------------------------------------

\* json_object_set after json__hash_map_insert: *obj->_hm is what it left
json_object_set_inserted(i, obj) ==
    [H |-> [i.H EXCEPT !.mem[obj._hm] = [hm |-> i.hm]], ok |-> i.ok]

\* json_object_set after json__hash_map_set returned s
json_object_set_new(s, H, obj, key, value) ==
    IF s.H.ub \/ s.ok THEN s
    ELSE json_object_set_inserted(
            json__hash_map_insert(H, H.mem[obj._hm].hm, obj._hm, key, value),
            obj)

\* bool json_object_set(obj, key, value)
json_object_set(H, obj, key, value) ==
    IF ~IsMap(H, obj._hm) THEN [H |-> Undefined(H), ok |-> FALSE]
    ELSE json_object_set_new(
            json__hash_map_set(H, H.mem[obj._hm].hm, key, value),
            H, obj, key, value)

\* json_object_get with the entry json__hash_map_get returned
json_object_get_entry(H, entry) ==
    IF entry = WildPtr THEN [found |-> FALSE, value |-> [type |-> "Undefined"]]
    ELSE IF entry = NullPtr THEN [found |-> FALSE, value |-> InvalidValue]
    ELSE [found |-> TRUE, value |-> Slot(H, entry).value]

\* struct json_value json_object_get(obj, key, found)
json_object_get(H, obj, key) ==
    json_object_get_entry(H,
        IF IsMap(H, obj._hm)
        THEN json__hash_map_get(H, H.mem[obj._hm].hm, key)
        ELSE WildPtr)

\* bool json_object_del(obj, key)
json_object_del(H, obj, key) ==
    IF ~IsMap(H, obj._hm) THEN [H |-> Undefined(H), ok |-> FALSE]
    ELSE json__hash_map_delete(H, H.mem[obj._hm].hm, key)

\* ------------------------------------------------------------------
\* The program around the API: a caller that owns the object M, may copy
\* it to M2, and sets and deletes keys on both
\* ------------------------------------------------------------------

Objs == {"M", "M2"}

JSON_STR(bytes) == [len |-> Len(bytes), data |-> NULL, bytes |-> bytes]

\* the kinds of value the caller builds
Shapes == {"Number", "String", "Array", "Object"}

\* the kinds of value of the longer behaviours
DeepShapes == {"String"}

VARIABLES
    mem,    \* block -> contents, for every block ever allocated
    live,   \* the allocated blocks
    freed,  \* the released blocks
    bad,    \* addresses released while not allocated
    nextp,  \* the next fresh block
    ub,     \* a call dereferenced a null or wild pointer
    obj,    \* object name -> struct json_object
    gone,   \* the objects handed to json_object_delete / json_value_delete
    tmp,    \* a value the caller got from json_value_copy, or InvalidValue
    abs,    \* the key -> value map the calls on M describe
    last,   \* the last call: what it was, what it returned, what held before
    nops,   \* the number of calls made
    shapes, \* the kinds of value the caller of this behaviour builds
    iterator, \* the struct json_object_iterator of the caller
    entries,  \* the struct json_object_entry results it got, in order
    lexer,    \* the struct json_lexer of the caller
    tokens,   \* the json_lexer_next_token results it got, in order
    buffer    \* the json__array_unsigned_char of the caller

vars == << mem, live, freed, bad, nextp, ub, obj, gone, tmp, abs, last, nops,
           shapes, iterator, entries, lexer, tokens, buffer >>

\* (struct json_object_iterator) {0}
NoIterator == [_bucket_index |-> 0, _current_entry |-> NullPtr, _hm |-> NULL]

\* json__array_unsigned_char arr = {0}; elems are the bytes items[0 .. len)
ZeroByteArray == [items |-> NULL, len |-> 0, cap |-> 0, elems |-> << >>]

\* struct json_lexer l = {0}
ZeroLexer ==
    [spec |-> "JSON_SPEC_JSON", source_name |-> ZeroString,
     source |-> ZeroString, pos |-> 0, read_pos |-> 0, ch |-> 0, row |-> 0,
     col |-> 0]

Heap(fail, reloc, m0null) ==
    [mem |-> mem, live |-> live, freed |-> freed, bad |-> bad, next |-> nextp,
     ub |-> ub, fail |-> fail, reloc |-> reloc, m0null |-> m0null,
     frees |-> 0]

Now == Heap(0, FALSE, FALSE)

Commit(H) ==
    /\ mem' = H.mem
    /\ live' = H.live
    /\ freed' = H.freed
    /\ bad' = H.bad
    /\ nextp' = H.next
    /\ ub' = H.ub

Usable(o) == obj[o]._hm # NULL /\ o \notin gone

\* what json_object_get answers for every key of every usable object
Gets(H, objs, dead) ==
    [o \in Objs |->
        [k \in Keys |->
            IF objs[o]._hm # NULL /\ o \notin dead
            THEN json_object_get(H, objs[o], JSON_STR(k))
            ELSE [found |-> FALSE, value |-> InvalidValue]]]

\* *o._hm, the header of the map of an object
HeaderOf(H, o) ==
    IF IsMap(H, o._hm) THEN H.mem[o._hm].hm ELSE NewMap(NULL, NULL, 0)

\* the entries of one bucket: the pointer to its head, then those its next
\* links lead to (at most fuel of them)
RECURSIVE ChainFrom(_, _, _)
ChainFrom(H, entry, fuel) ==
    IF entry = NullPtr \/ ~SlotOK(H, entry) \/ fuel = 0 THEN << >>
    ELSE << entry >> \o ChainFrom(H, Slot(H, entry).next, fuel - 1)

Chain(H, hm, i) ==
    IF /\ SlotOK(H, [blk |-> hm.bucket, idx |-> i])
       /\ json__hash_map_entry_valid(Slot(H, [blk |-> hm.bucket, idx |-> i]))
    THEN ChainFrom(H, [blk |-> hm.bucket, idx |-> i],
                   hm.bucket_cap + hm.collisions_size + 1)
    ELSE << >>

\* where the entries with the key are on the chain c
PosOn(H, c, key) ==
    IF \A j \in 1..Len(c) : ~json_string_eq(Slot(H, c[j]).key, key) THEN "absent"
    ELSE IF json_string_eq(Slot(H, c[1]).key, key) THEN "head"
    ELSE IF json_string_eq(Slot(H, c[Len(c)]).key, key) THEN "end"
    ELSE "middle"

\* where the entry of key is on the chain of its home bucket
ChainPos(H, hm, key) == PosOn(H, Chain(H, hm, HomeBucket(hm, key).idx), key)

NoCall ==
    [op |-> "none", o |-> "M", key |-> << >>, value |-> InvalidValue,
     ret |-> FALSE, fail |-> 0, via |-> "none"]

\* the record of a call: via is the function a deletion went through or, for
\* json_object_del, where the key was on its chain; prev is the call before;
\* pre is the program's state when the call was made
Call(op, o, key, value, ret, fail, via) ==
    [op |-> op, o |-> o, key |-> key, value |-> value, ret |-> ret,
     fail |-> fail, via |-> via,
     prev |-> [op |-> last.op, o |-> last.o, key |-> last.key,
               value |-> last.value, ret |-> last.ret],
     pre |-> [H |-> Now, obj |-> obj, gone |-> gone, abs |-> abs, tmp |-> tmp]]

\* a String value from the string s just created
MakeString(s) == [H |-> s.H, v |-> json_string_to_value(s.s), ok |-> s.ok]

\* an Array value from the array a just copied
MakeArray(a, ok) == [H |-> a.H, v |-> json_array_to_value(a.arr), ok |-> ok /\ a.ok]

\* JSON_CREATE_ARRAY(&ok, <the string s>, <rest>)
MakeArrayOf(s, rest) ==
    MakeArray(json_array_copy(s.H,
                  [len |-> 1 + Len(rest), items |-> NULL,
                   elems |-> << json_string_to_value(s.s) >> \o rest]),
              s.ok)

MakeObjectSet(r, o, ok) ==
    [H |-> r.H, v |-> json_object_to_value(o.obj), ok |-> o.ok /\ ok /\ r.ok]

MakeObjectOf(a, o) ==
    MakeObjectSet(json_object_set(a.H, o.obj, JSON_STR(<< 97 >>), a.v), o, a.ok)

\* an object holding "a": [ "z" ]
MakeObject(o) == MakeObjectOf(MakeArrayOf(json_string_create(o.H, << 122 >>), << >>), o)

\* the caller builds a value of the given shape
MakeValue(H, shape) ==
    CASE shape = "Number" -> [H |-> H, v |-> json_number(1), ok |-> TRUE]
      [] shape = "String" -> MakeString(json_string_create(H, << 120 >>))
      [] shape = "Array" ->
            \* JSON_CREATE_ARRAY(&ok, json_string_createv("y"), json_number(2))
            MakeArrayOf(json_string_create(H, << 121 >>), << json_number(2) >>)
      [] shape = "Object" -> MakeObject(json_object_create(H))

\* the object M as json_object_create returned it
Created(c) ==
    /\ mem = c.H.mem
    /\ live = c.H.live
    /\ nextp = c.H.next
    /\ obj = [o \in Objs |-> IF o = "M" THEN c.obj ELSE [_hm |-> NULL]]

Init ==
    /\ Created(json_object_create(
                [mem |-> << >>, live |-> {}, freed |-> {}, bad |-> {}, next |-> 1,
                 ub |-> FALSE, fail |-> 0, reloc |-> FALSE, m0null |-> FALSE,
                 frees |-> 0]))
    /\ freed = {}
    /\ bad = {}
    /\ ub = FALSE
    /\ gone = {}
    /\ tmp = InvalidValue
    /\ abs = << >>
    /\ last = NoCall
    /\ nops = 0
    /\ shapes \in {DeepShapes, Shapes}
    /\ iterator = NoIterator
    /\ entries = << >>
    /\ lexer = ZeroLexer
    /\ tokens = << >>
    /\ buffer = ZeroByteArray

CanCall ==
    /\ nops < (IF shapes = Shapes THEN MaxMixedOps ELSE MaxOps)
    /\ ~ub

\* the allocations a call made: the failure points to try are 1 .. that many
Allocations(H) == H.next - nextp

\* the effect of json_object_set(&o, key, value) that returned r
ObjectSetDone(r, o, k, value) ==
    /\ Commit(r.H)
    /\ last' = Call("set", o, k, value, r.ok, 0, "none")
    /\ abs' = IF o = "M" /\ r.ok THEN (k :> value) @@ abs ELSE abs

ObjectSetValue(v, o, k) ==
    ObjectSetDone(json_object_set(v.H, obj[o], JSON_STR(k), v.v), o, k, v.v)

\* json_object_set(&o, key, value) with a value just built
ObjectSet(o, k, shape) ==
    /\ CanCall
    /\ Usable(o)
    /\ shape \in shapes
    /\ ObjectSetValue(MakeValue(Now, shape), o, k)
    /\ nops' = nops + 1
    /\ UNCHANGED << buffer, obj, gone, tmp, shapes, iterator, entries,
                 lexer, tokens >>

\* the effect of json_object_del(&o, key) that returned r
ObjectDelDone(r, o, k) ==
    /\ Commit(r.H)
    /\ last' = Call("del", o, k, InvalidValue, r.ok, 0,
                    ChainPos(Now, HeaderOf(Now, obj[o]), JSON_STR(k)))
    /\ abs' = IF o = "M" THEN [x \in (DOMAIN abs) \ {k} |-> abs[x]] ELSE abs

\* json_object_del(&o, key)
ObjectDel(o, k) ==
    /\ CanCall
    /\ Usable(o)
    /\ ObjectDelDone(json_object_del(Now, obj[o], JSON_STR(k)), o, k)
    /\ nops' = nops + 1
    /\ UNCHANGED << buffer, obj, gone, tmp, shapes, iterator, entries,
                 lexer, tokens >>

\* the effect of json_object_copy(M, &ok) that returned c
ObjectCopyDone(c, fail) ==
    /\ Commit(c.H)
    /\ obj' = [obj EXCEPT !["M2"] = c.obj]
    /\ last' = Call("copy", "M", << >>, InvalidValue, c.ok, fail, "none")

\* M2 = json_object_copy(M, &ok); the fail-th allocation of the call fails
ObjectCopy(fail) ==
    /\ CanCall
    /\ Usable("M")
    /\ obj["M2"]._hm = NULL
    /\ fail <= Allocations(json_object_copy(Now, obj["M"]).H)
    /\ ObjectCopyDone(json_object_copy(Heap(fail, FALSE, FALSE), obj["M"]), fail)
    /\ nops' = nops + 1
    /\ UNCHANGED << buffer, gone, tmp, abs, shapes, iterator, entries,
                 lexer, tokens >>

\* json_object_delete(o), or json_value_delete(json_object_to_value(o))
ObjectDelete(o, via) ==
    /\ CanCall
    /\ Usable(o)
    /\ Commit(IF via = "json_object_delete"
              THEN json_object_delete(Now, obj[o])
              ELSE json_value_delete(Now, json_object_to_value(obj[o])))
    /\ gone' = gone \cup {o}
    /\ last' = Call("delete", o, << >>, InvalidValue, TRUE, 0, via)
    /\ nops' = nops + 1
    /\ UNCHANGED << buffer, obj, tmp, abs, shapes, iterator, entries,
                 lexer, tokens >>

\* the effect of json_value_copy(value, &ok) that returned c
ValueCopyDone(c, k, value, fail) ==
    /\ Commit(c.H)
    /\ tmp' = IF c.ok THEN c.v ELSE InvalidValue
    /\ last' = Call("value_copy", "M", k, value, c.ok, fail, "none")

\* json_value_copy of the value g that json_object_get found
ValueCopyOf(g, k, fail) ==
    /\ g.found
    /\ fail <= Allocations(json_value_copy(Now, g.value, TRUE).H)
    /\ ValueCopyDone(json_value_copy(Heap(fail, FALSE, FALSE), g.value, TRUE),
                     k, g.value, fail)

\* tmp = json_value_copy(json_object_get(&M, key, &found), &ok)
ValueCopy(k, fail) ==
    /\ CanCall
    /\ Usable("M")
    /\ tmp = InvalidValue
    /\ ValueCopyOf(json_object_get(Now, obj["M"], JSON_STR(k)), k, fail)
    /\ nops' = nops + 1
    /\ UNCHANGED << buffer, obj, gone, abs, shapes, iterator, entries,
                 lexer, tokens >>

\* json_value_delete(tmp)
ValueDelete ==
    /\ CanCall
    /\ tmp # InvalidValue
    /\ Commit(json_value_delete(Now, tmp))
    /\ tmp' = InvalidValue
    /\ last' = Call("value_delete", last.o, last.key, tmp, TRUE, 0, "none")
    /\ nops' = nops + 1
    /\ UNCHANGED << buffer, obj, gone, abs, shapes, iterator, entries,
                 lexer, tokens >>

Next ==
    \/ \E o \in Objs, k \in Keys, shape \in Shapes : ObjectSet(o, k, shape)
    \/ \E o \in Objs, k \in Keys : ObjectDel(o, k)
    \/ \E fail \in 0..MaxFailAt : ObjectCopy(fail)
    \/ \E o \in Objs, via \in {"json_object_delete", "json_value_delete"} :
            ObjectDelete(o, via)
    \/ \E k \in Keys, fail \in 0..MaxFailAt : ValueCopy(k, fail)
    \/ ValueDelete

Spec == Init /\ [][Next]_vars

\* ------------------------------------------------------------------
\* What the properties below read
\* ------------------------------------------------------------------

\* the answers of json_object_get now and when the last call was made
NowGets == Gets(Now, obj, gone)
PreGets == Gets(last.pre.H, last.pre.obj, last.pre.gone)

NowHm(o) == HeaderOf(Now, obj[o])
PreHm(o) == HeaderOf(last.pre.H, last.pre.obj[o])

Found(v) == [found |-> TRUE, value |-> v]

\* the entries get can reach: the bucket heads and what their chains hold
LiveEntries(H, hm) ==
    UNION { { Chain(H, hm, i)[j] : j \in 1..Len(Chain(H, hm, i)) } :
            i \in 0..(hm.bucket_cap - 1) }

EntriesFor(H, hm, k) ==
    { p \in LiveEntries(H, hm) : Slot(H, p).key.bytes = k }

\* the blocks a value owns, at every depth
RECURSIVE Owned(_, _)

OwnedByMap(H, mp) ==
    IF ~IsMap(H, mp) THEN {}
    ELSE LET hm == H.mem[mp].hm
         IN  {mp, hm.bucket, hm.collisions}
             \cup UNION { (IF Slot(H, p).key.len > 0
                           THEN {Slot(H, p).key.data} ELSE {})
                          \cup Owned(H, Slot(H, p).value) :
                          p \in LiveEntries(H, hm) }

Owned(H, v) ==
    CASE v.type = "String" ->
            IF v.string.len > 0 THEN {v.string.data} ELSE {}
      [] v.type = "Array" ->
            (IF v.array.items # NULL THEN {v.array.items} ELSE {})
            \cup UNION { Owned(H, v.array.elems[i]) : i \in 1..Len(v.array.elems) }
      [] v.type = "Object" -> OwnedByMap(H, v.object._hm)
      [] OTHER -> {}

\* equal values: the same variant holding the same bytes, items and entries
RECURSIVE SameValue(_, _, _)
SameValue(H, a, b) ==
    /\ a.type = b.type
    /\ CASE a.type = "String" -> a.string.bytes = b.string.bytes
         [] a.type = "Array" ->
                /\ a.array.len = b.array.len
                /\ \A i \in 1..Len(a.array.elems) :
                        SameValue(H, a.array.elems[i], b.array.elems[i])
         [] a.type = "Object" ->
                \A k \in Keys :
                    LET x == json_object_get(H, a.object, JSON_STR(k))
                        y == json_object_get(H, b.object, JSON_STR(k))
                    IN  /\ x.found = y.found
                        /\ x.found => SameValue(H, x.value, y.value)
         [] OTHER -> a = b

\* the storage the values of object o own, as far as it was allocated when
\* the last call was made, is still allocated
StorageKept(o) ==
    \A k \in Keys :
        NowGets[o][k].found =>
            (Owned(Now, NowGets[o][k].value) \cap last.pre.H.live) \subseteq live

\* the last call was a json_object_set that grew the map
Grew ==
    /\ last.op = "set"
    /\ NowHm(last.o).bucket_cap > PreHm(last.o).bucket_cap

\* the last two calls were json_object_set on one object
TwoSets ==
    /\ last.op = "set"
    /\ last.prev.op = "set"
    /\ last.prev.o = last.o

SameBucket(hm, k1, k2) ==
    HomeBucket(hm, JSON_STR(k1)) = HomeBucket(hm, JSON_STR(k2))

\* ------------------------------------------------------------------
\* Properties
\* ------------------------------------------------------------------

\* C1: on a freshly created object, after json_object_set(k1, v1) and
\* json_object_set(k2, v2) with k1 # k2, in either order, json_object_get
\* finds k1 with v1 and k2 with v2.
C1_TwoKeysBothFound ==
    (TwoSets /\ nops = 2 /\ last.o = "M" /\ last.prev.key # last.key)
    => /\ last.prev.ret
       /\ last.ret
       /\ NowGets["M"][last.prev.key] = Found(last.prev.value)
       /\ NowGets["M"][last.key] = Found(last.value)

\* the two keys share a home bucket and both are found
C1_Witness ==
    /\ TwoSets /\ nops = 2 /\ last.o = "M" /\ last.prev.key # last.key
    /\ SameBucket(NowHm("M"), last.prev.key, last.key)
    /\ NowGets["M"][last.prev.key].found
    /\ NowGets["M"][last.key].found

C3_SetTwiceOneEntry ==
    (TwoSets /\ last.prev.key = last.key /\ last.prev.ret)
    => /\ last.ret
       /\ NowGets[last.o][last.key] = Found(last.value)
       /\ Cardinality(EntriesFor(Now, NowHm(last.o), last.key)) = 1
       /\ NowHm(last.o).bucket_size = PreHm(last.o).bucket_size

\* the key set twice sits on a chain, not at the head of its bucket
C3_Witness ==
    /\ TwoSets /\ last.prev.key = last.key /\ last.prev.ret /\ last.ret
    /\ last.value # last.prev.value
    /\ ChainPos(Now, NowHm(last.o), JSON_STR(last.key)) = "end"

\* C4: once json_object_del(k) has returned true, json_object_get(k) reports
\* not found and a second json_object_del(k) returns false, for keys of any
\* length.
C4_DeletedKeyStaysDeleted ==
    (last.op = "del" /\ last.ret)
    => /\ ~NowGets[last.o][last.key].found
       /\ ~json_object_del(Now, obj[last.o], JSON_STR(last.key)).ok

\* C5: json_object_del(k) changes the answer of json_object_get for no key
\* other than k, wherever k was on the chain of its bucket.
C5_DelLeavesOtherKeys ==
    last.op = "del"
    => \A k \in Keys \ {last.key} : NowGets[last.o][k] = PreGets[last.o][k]

\* the key deleted was in the middle of a chain whose head and end stay found
C5_Witness ==
    /\ last.op = "del" /\ last.ret /\ last.via = "middle"
    /\ \E k1, k2 \in Keys \ {last.key} :
        /\ ChainPos(Now, NowHm(last.o), JSON_STR(k1)) = "head"
        /\ ChainPos(Now, NowHm(last.o), JSON_STR(k2)) = "end"
        /\ SameBucket(NowHm(last.o), k1, k2)
        /\ SameBucket(NowHm(last.o), k1, last.key)

\* M2 is a copy of M and both are in use
Copied == Usable("M") /\ Usable("M2")

Other(o) == IF o = "M" THEN "M2" ELSE "M"

\* C6: with M2 = json_object_copy(M), a json_object_set or json_object_del
\* on one of the two objects leaves every json_object_get answer of the
\* other as it was, and releases none of the storage those answers refer to.
C6_CopyIsIndependent ==
    (Copied /\ last.op \in {"set", "del"} /\ Other(last.o) \notin last.pre.gone)
    => /\ NowGets[Other(last.o)] = PreGets[Other(last.o)]
       /\ StorageKept(Other(last.o))

C8_ObjectDeleteReleases ==
    last.op = "delete"
    => OwnedByMap(last.pre.H, obj[last.o]._hm) \cap live = {}

\* C9: the json_value_copy of an Array or an Object shares no owned buffer
\* with its source at any depth, and deleting the copy releases nothing the
\* values of the source refer to.
C9_ValueCopyIsDeep ==
    /\ (last.op = "value_copy" /\ last.ret)
            => Owned(Now, tmp) \cap Owned(Now, last.value) = {}
    /\ last.op = "value_delete" => StorageKept("M")

\* the blocks the last call allocated
AllocatedByCall == last.pre.H.next .. (nextp - 1)

\* C10: a json_object_copy in which an allocation fails reports ok = false
\* and returns no map, leaves the source as it was, releases every block it
\* allocated exactly once and releases nothing else.
C10_FailedCopyCleansUp ==
    (last.op = "copy" /\ last.fail > 0)
    => /\ ~last.ret
       /\ obj["M2"]._hm = NULL
       /\ \A b \in OwnedByMap(last.pre.H, obj["M"]._hm) : mem[b] = last.pre.H.mem[b]
       /\ NowGets["M"] = PreGets["M"]
       /\ AllocatedByCall \subseteq freed
       /\ freed \ last.pre.H.freed \subseteq AllocatedByCall
       /\ bad = last.pre.H.bad
       /\ live = last.pre.H.live

\* ------------------------------------------------------------------
\* The allocating constructors as the public API exposes them: each takes
\* the pointer `ok` to the caller's success flag
\* ------------------------------------------------------------------

\* the address of a caller's compound literal (JSON_CREATE_TEMP_ARRAY): not
\* a heap block
STACK_items == -2

\* the address of the caller's success flag (bool ok): not a heap block
STACK_ok == -3

\* json_array_concat_from that stores right's items before left's
json_array_concat_from_Swapped(a, left, right) ==
    IF a.p = NULL
    THEN [H |-> a.H, arr |-> json_array_create, ok |-> FALSE]
    ELSE [H |-> a.H,
          arr |-> [len |-> left.len + right.len, items |-> a.p,
                   elems |-> right.elems \o left.elems],
          ok |-> TRUE]

\* json_array_concat after its JSON_MALLOC
json_array_concat_from(a, left, right) ==
    IF a.p = NULL
    THEN [H |-> a.H, arr |-> json_array_create, ok |-> FALSE]
    ELSE [H |-> a.H,
          arr |-> [len |-> left.len + right.len, items |-> a.p,
                   elems |-> left.elems \o right.elems],
          ok |-> TRUE]

\* struct json_array json_array_concat(left, right, bool *ok)
json_array_concat(H, left, right) ==
    json_array_concat_from(
        IF left.len + right.len = 0 /\ H.m0null /\ H.fail # 1
        THEN [H |-> Tick(H), p |-> NULL]
        ELSE JSON_MALLOC(H, [items |-> left.elems \o right.elems]),
        left, right)

\* how a call of a constructor ends:
\*   signal   JSON_ASSERT was raised
\*   written  *ok was assigned
\*   ok       the value assigned to *ok
\*   v        the value returned
\* JSON_ASSERT(ok != NULL, ...) failed: nothing else was done
Raised(H) ==
    [H |-> H, signal |-> TRUE, written |-> FALSE, ok |-> FALSE,
     v |-> InvalidValue]

\* *ok = ... with ok == NULL: a write through a null pointer
NullOk(H) ==
    [H |-> Undefined(H), signal |-> FALSE, written |-> FALSE, ok |-> FALSE,
     v |-> InvalidValue]

ReturnedString(r) ==
    [H |-> r.H, signal |-> FALSE, written |-> TRUE, ok |-> r.ok,
     v |-> json_string_to_value(r.s)]

ReturnedArray(r) ==
    [H |-> r.H, signal |-> FALSE, written |-> TRUE, ok |-> r.ok,
     v |-> json_array_to_value(r.arr)]

ReturnedObject(r) ==
    [H |-> r.H, signal |-> FALSE, written |-> TRUE, ok |-> r.ok,
     v |-> json_object_to_value(r.obj)]

\* json_value_copy assigns *ok in the three allocating cases only
ReturnedValue(r, value) ==
    [H |-> r.H, signal |-> FALSE,
     written |-> value.type \in {"Object", "Array", "String"},
     ok |-> r.ok, v |-> r.v]

\* json_string_create(str, len, ok): JSON_ASSERT(ok != NULL, ...) first
json_string_create_with(H, bytes, ok) ==
    IF ok = NULL THEN Raised(H)
    ELSE ReturnedString(json_string_create(H, bytes))

\* json_string_copy(str, ok) is json_string_create(str.data, str.len, ok)
json_string_copy_with(H, str, ok) == json_string_create_with(H, str.bytes, ok)

\* json_object_create(ok): JSON_ASSERT(ok != NULL, ...) first
json_object_create_with(H, ok) ==
    IF ok = NULL THEN Raised(H)
    ELSE ReturnedObject(json_object_create(H))

\* json_object_copy(obj, ok): JSON_ASSERT(ok != NULL, ...) first
json_object_copy_with(H, object, ok) ==
    IF ok = NULL THEN Raised(H)
    ELSE ReturnedObject(json_object_copy(H, object))

\* *ok = false / *ok = true after the JSON_MALLOC of an array constructor
AssignOkArray(r, ok) ==
    IF ok = NULL THEN NullOk(r.H) ELSE ReturnedArray(r)

\* json_array_copy(arr, ok) has no JSON_ASSERT: the JSON_MALLOC is made,
\* then *ok is assigned
json_array_copy_with(H, arr, ok) ==
    AssignOkArray(json_array_copy(H, arr), ok)

\* json_array_concat(left, right, ok) has no JSON_ASSERT either
json_array_concat_with(H, left, right, ok) ==
    AssignOkArray(json_array_concat(H, left, right), ok)

\* json_value_copy(value, ok): JSON_ASSERT(ok != NULL, ...) first
json_value_copy_with(H, value, ok) ==
    IF ok = NULL THEN Raised(H)
    ELSE ReturnedValue(json_value_copy(H, value, TRUE), value)

\* ------------------------------------------------------------------
\* A caller of the constructors: it builds Strings, Arrays and Objects,
\* copies and deletes the value it holds (tmp), with the next allocation
\* to fail, the answer to a request of 0 bytes and the ok pointer chosen
\* freely
\* ------------------------------------------------------------------

\* the number of constructor and delete calls of a behaviour
MaxCtorOps == 3

\* the byte strings the caller passes: "", "x", "xy"
CtorStrings == { << >>, << 120 >>, << 120, 121 >> }

\* JSON_CREATE_TEMP_ARRAY(...): an array on the caller's stack
TempArray(elems) == [len |-> Len(elems), items |-> STACK_items, elems |-> elems]

\* the arrays the caller passes: json_array_create(), two temporaries, and
\* the array it holds
CtorArrays ==
    { json_array_create, TempArray(<< json_number(1) >>),
      TempArray(<< json_null, json_boolean(TRUE) >>) }
    \cup (IF tmp.type = "Array" THEN { tmp.array } ELSE {})

OkPointers == { NULL, STACK_ok }

\* a call that has no ok parameter
Plain(H, v) ==
    [H |-> H, signal |-> FALSE, written |-> FALSE, ok |-> FALSE, v |-> v]

NoCtorCall ==
    [op |-> "none", arg |-> << >>, fail |-> 0, m0null |-> FALSE,
     given |-> TRUE, signal |-> FALSE, written |-> FALSE, ok |-> FALSE,
     v |-> InvalidValue, failed |-> FALSE, frees |-> 0,
     pre |-> [live |-> {}, tmp |-> InvalidValue]]

CtorInit ==
    /\ mem = << >>
    /\ live = {}
    /\ freed = {}
    /\ bad = {}
    /\ nextp = 1
    /\ ub = FALSE
    /\ obj = [o \in Objs |-> [_hm |-> NULL]]
    /\ gone = {}
    /\ tmp = InvalidValue
    /\ abs = << >>
    /\ last = NoCtorCall
    /\ nops = 0
    /\ shapes = Shapes
    /\ iterator = NoIterator
    /\ entries = << >>
    /\ lexer = ZeroLexer
    /\ tokens = << >>
    /\ buffer = ZeroByteArray

\* a raised JSON_ASSERT leaves the call (longjmp in test.c, abort by default)
CtorCanCall ==
    /\ nops < MaxCtorOps
    /\ ~ub
    /\ ~last.signal

\* the call op(arg) ended as r: the caller keeps the value it returned
CtorDone(op, arg, r, fail, m0null, ok) ==
    /\ Commit(r.H)
    /\ tmp' = r.v
    /\ last' = [op |-> op, arg |-> arg, fail |-> fail, m0null |-> m0null,
                given |-> ok # NULL, signal |-> r.signal,
                written |-> r.written, ok |-> r.ok, v |-> r.v,
                failed |-> fail > 0 /\ r.H.fail = 0, frees |-> r.H.frees,
                pre |-> [live |-> live, tmp |-> tmp]]
    /\ nops' = nops + 1
    /\ UNCHANGED << buffer, obj, gone, abs, shapes, iterator, entries,
                 lexer, tokens >>

\* json_string_create(str, len, &ok)
StringCreate(bytes, fail, ok) ==
    /\ CtorCanCall
    /\ fail <= Len(bytes)
    /\ CtorDone("json_string_create", << bytes >>,
                json_string_create_with(Heap(fail, FALSE, FALSE), bytes, ok),
                fail, FALSE, ok)

\* json_string_create_empty()
StringCreateEmpty ==
    /\ CtorCanCall
    /\ CtorDone("json_string_create_empty", << >>,
                Plain(Now, json_string_to_value(json_string_create_empty)),
                0, FALSE, STACK_ok)

\* json_string_copy(tmp.data.string, &ok)
StringCopy(fail, ok) ==
    /\ CtorCanCall
    /\ tmp.type = "String"
    /\ fail <= tmp.string.len
    /\ CtorDone("json_string_copy", << tmp >>,
                json_string_copy_with(Heap(fail, FALSE, FALSE), tmp.string, ok),
                fail, FALSE, ok)

\* json_object_create(&ok)
ObjectCreate(fail, ok) ==
    /\ CtorCanCall
    /\ CtorDone("json_object_create", << >>,
                json_object_create_with(Heap(fail, FALSE, FALSE), ok),
                fail, FALSE, ok)

\* json_object_copy(tmp.data.object, &ok)
ObjectCopyHeld(fail, ok) ==
    /\ CtorCanCall
    /\ tmp.type = "Object"
    /\ tmp.object._hm # NULL
    /\ CtorDone("json_object_copy", << tmp >>,
                json_object_copy_with(Heap(fail, FALSE, FALSE), tmp.object, ok),
                fail, FALSE, ok)

\* json_array_create()
ArrayCreate ==
    /\ CtorCanCall
    /\ CtorDone("json_array_create", << >>,
                Plain(Now, json_array_to_value(json_array_create)),
                0, FALSE, STACK_ok)

\* json_array_copy(arr, &ok) of one array
ArrayCopyOf(arr, fail, m0null, ok) ==
    /\ m0null => arr.len = 0
    /\ CtorDone("json_array_copy", << json_array_to_value(arr) >>,
                json_array_copy_with(Heap(fail, FALSE, m0null), arr, ok),
                fail, m0null, ok)

\* json_array_copy(arr, &ok)
ArrayCopy(fail, m0null, ok) ==
    /\ CtorCanCall
    /\ \E arr \in CtorArrays : ArrayCopyOf(arr, fail, m0null, ok)

\* json_array_concat(left, right, &ok) of two arrays
ArrayConcatOf(left, right, fail, m0null, ok) ==
    /\ m0null => left.len + right.len = 0
    /\ CtorDone("json_array_concat",
                << json_array_to_value(left), json_array_to_value(right) >>,
                json_array_concat_with(Heap(fail, FALSE, m0null), left, right, ok),
                fail, m0null, ok)

\* json_array_concat(left, right, &ok)
ArrayConcat(fail, m0null, ok) ==
    /\ CtorCanCall
    /\ \E left \in CtorArrays, right \in CtorArrays :
            ArrayConcatOf(left, right, fail, m0null, ok)

\* json_value_copy(value, &ok) of one value
ValueCopyOfHeld(value, fail, ok) ==
    /\ value.type = "Object" => value.object._hm # NULL
    /\ CtorDone("json_value_copy", << value >>,
                json_value_copy_with(Heap(fail, FALSE, FALSE), value, ok),
                fail, FALSE, ok)

\* json_value_copy(value, &ok) of the value held or of a scalar
ValueCopyHeld(fail, ok) ==
    /\ CtorCanCall
    /\ \E value \in { tmp, json_number(1) } : ValueCopyOfHeld(value, fail, ok)

\* json_string_delete(tmp.data.string)
StringDelete ==
    /\ CtorCanCall
    /\ tmp.type = "String"
    /\ CtorDone("json_string_delete", << tmp >>,
                Plain(json_string_delete(Now, tmp.string), InvalidValue),
                0, FALSE, STACK_ok)

\* json_array_delete(tmp.data.array)
ArrayDelete ==
    /\ CtorCanCall
    /\ tmp.type = "Array"
    /\ CtorDone("json_array_delete", << tmp >>,
                Plain(json_array_delete(Now, tmp.array), InvalidValue),
                0, FALSE, STACK_ok)

CtorNext ==
    \/ \E bytes \in CtorStrings, fail \in 0..1, ok \in OkPointers :
            StringCreate(bytes, fail, ok)
    \/ StringCreateEmpty
    \/ \E fail \in 0..1, ok \in OkPointers : StringCopy(fail, ok)
    \/ \E fail \in 0..3, ok \in OkPointers : ObjectCreate(fail, ok)
    \/ \E fail \in 0..3, ok \in OkPointers : ObjectCopyHeld(fail, ok)
    \/ ArrayCreate
    \/ \E fail \in 0..1, m0null \in BOOLEAN, ok \in OkPointers :
            ArrayCopy(fail, m0null, ok)
    \/ \E fail \in 0..1, m0null \in BOOLEAN, ok \in OkPointers :
            ArrayConcat(fail, m0null, ok)
    \/ \E fail \in 0..1, ok \in OkPointers : ValueCopyHeld(fail, ok)
    \/ StringDelete
    \/ ArrayDelete

SpecCtor == CtorInit /\ [][CtorNext]_vars

\* ------------------------------------------------------------------
\* Properties of the constructors, read off the last call (SpecCtor)
\* ------------------------------------------------------------------

\* the allocation of the last call returned NULL: the chosen allocation
\* failed, or the request was for 0 bytes and the allocator answers NULL
AllocationFailed == last.failed \/ last.m0null

\* the empty state of a String, an Array or an Object
EmptyResult(v) ==
    CASE v.type = "String" -> v.string.len = 0 /\ v.string.data = NULL
      [] v.type = "Array" -> v.array.len = 0 /\ v.array.items = NULL
      [] v.type = "Object" -> v.object._hm = NULL
      [] OTHER -> FALSE

\* C11: when an allocation fails in json_string_create, json_object_create,
\* json_array_copy or json_array_concat, *ok is set to false, the result is
\* the empty String / Array / Object and no block the call allocated is left
\* allocated; when no allocation fails *ok is set to true.
C11_FailureGivesEmpty ==
    (/\ last.op \in {"json_string_create", "json_object_create",
                     "json_array_copy", "json_array_concat"}
     /\ last.given)
    => IF AllocationFailed
       THEN /\ last.written
            /\ ~last.ok
            /\ EmptyResult(last.v)
            /\ live = last.pre.live
       ELSE last.written /\ last.ok

\* json_object_create whose third allocation (the collisions array) failed
\* after two blocks were allocated
C11_Witness ==
    /\ last.op = "json_object_create"
    /\ last.given
    /\ last.fail = 3
    /\ last.failed
    /\ ~last.ok

\* C12: each allocating constructor (json_string_create, json_object_create,
\* json_object_copy, json_array_copy, json_array_concat, json_value_copy)
\* raises the JSON_ASSERT signal when its ok pointer is null, and raises no
\* signal when ok is given, whether or not an allocation failed.
C12_NullOkRaisesAssert ==
    last.op \in {"json_string_create", "json_object_create",
                 "json_object_copy", "json_array_copy", "json_array_concat",
                 "json_value_copy"}
    => (last.signal <=> ~last.given)

\* the String or Array value v has length 0
LengthZero(v) ==
    \/ v.type = "String" /\ v.string.len = 0
    \/ v.type = "Array" /\ v.array.len = 0

\* the storage pointer of a String or Array value
Storage(v) == IF v.type = "String" THEN v.string.data ELSE v.array.items

\* C13: every String and Array of length 0 that an operation returns has a
\* null storage pointer, and json_string_delete / json_array_delete of a
\* value of length 0 makes no call of JSON_FREE.
C13_EmptyHasNoStorage ==
    /\ (~last.signal /\ ~ub /\ LengthZero(last.v)) => Storage(last.v) = NULL
    /\ (/\ last.op \in {"json_string_delete", "json_array_delete"}
        /\ LengthZero(last.arg[1]))
       => last.frees = 0

\* ------------------------------------------------------------------
\* The object iterator
\* ------------------------------------------------------------------

\* the json_object_iterator_next calls of a behaviour
MaxIterCalls == 6

\* struct json_object_iterator json_object_iterator_create(obj)
json_object_iterator_create(object) ==
    [_bucket_index |-> 0, _current_entry |-> NullPtr, _hm |-> object._hm]

\* return (struct json_object_entry) { .found = false }
NotFoundEntry(it) ==
    [it |-> it,
     entry |-> [found |-> FALSE, key |-> ZeroString, value |-> NullPtr],
     ub |-> FALSE]

\* return { .value = &current->value, .key = current->key, .found = true }
FoundEntry(H, it) ==
    IF ~SlotOK(H, it._current_entry)
    THEN [it |-> it,
          entry |-> [found |-> FALSE, key |-> ZeroString, value |-> NullPtr],
          ub |-> TRUE]
    ELSE [it |-> it,
          entry |-> [found |-> TRUE, key |-> Slot(H, it._current_entry).key,
                     value |-> it._current_entry],
          ub |-> FALSE]

\* the for loop of json_object_iterator_next: it starts at _bucket_index and
\* returns from inside the loop, before _bucket_index++
RECURSIVE IteratorScan(_, _, _)
IteratorScan(H, it, hm) ==
    IF it._bucket_index >= hm.bucket_cap THEN NotFoundEntry(it)
    ELSE IF ~SlotOK(H, [blk |-> hm.bucket, idx |-> it._bucket_index])
    THEN [NotFoundEntry(it) EXCEPT !.ub = TRUE]
    ELSE IF json__hash_map_entry_valid(
                Slot(H, [blk |-> hm.bucket, idx |-> it._bucket_index]))
    THEN FoundEntry(H, [it EXCEPT !._current_entry =
                           [blk |-> hm.bucket, idx |-> it._bucket_index]])
    ELSE IteratorScan(H,
                      [it EXCEPT !._current_entry =
                                     [blk |-> hm.bucket, idx |-> it._bucket_index],
                                 !._bucket_index = @ + 1],
                      hm)

\* struct json_object_entry json_object_iterator_next(iterator)
json_object_iterator_next(H, it) ==
    IF /\ it._current_entry # NullPtr
       /\ SlotOK(H, it._current_entry)
       /\ Slot(H, it._current_entry).next # NullPtr
    THEN FoundEntry(H, [it EXCEPT !._current_entry =
                           Slot(H, it._current_entry).next])
    ELSE IF ~IsMap(H, it._hm) THEN [NotFoundEntry(it) EXCEPT !.ub = TRUE]
    ELSE IteratorScan(H, it, H.mem[it._hm].hm)

\* a caller that fills the object M, then creates an iterator and calls
\* json_object_iterator_next without touching M again
IterInit ==
    /\ Init
    /\ shapes = DeepShapes

\* json_object_set(&M, key, value) before the iteration
IterSet(k) ==
    /\ iterator = NoIterator
    /\ ObjectSet("M", k, "String")

\* json_object_del(&M, key) before the iteration
IterDel(k) ==
    /\ iterator = NoIterator
    /\ ObjectDel("M", k)

\* it = json_object_iterator_create(&M)
IterCreate ==
    /\ ~ub
    /\ Usable("M")
    /\ iterator = NoIterator
    /\ iterator' = json_object_iterator_create(obj["M"])
    /\ UNCHANGED << buffer, mem, live, freed, bad, nextp, ub, obj, gone, tmp, abs,
                    last, nops, shapes, entries, lexer, tokens >>

\* the call returned r
IterNextDone(r) ==
    /\ iterator' = r.it
    /\ entries' = Append(entries, r.entry)
    /\ ub' = r.ub

\* entry = json_object_iterator_next(&it)
IterNext ==
    /\ ~ub
    /\ iterator # NoIterator
    /\ Len(entries) < MaxIterCalls
    /\ IterNextDone(json_object_iterator_next(Now, iterator))
    /\ UNCHANGED << buffer, mem, live, freed, bad, nextp, obj, gone, tmp, abs, last,
                    nops, shapes, lexer, tokens >>

NextIter ==
    \/ \E k \in Keys : IterSet(k)
    \/ \E k \in Keys : IterDel(k)
    \/ IterCreate
    \/ IterNext

SpecIter == IterInit /\ [][NextIter]_vars

\* the number of entries of the object M
EntryCount == Cardinality(LiveEntries(Now, NowHm("M")))

\* C14: with n live entries in an object that is not modified while it is
\* iterated, the first n calls of json_object_iterator_next return found =
\* true with n different entries, each a live entry with its key and its
\* value, and the (n+1)-th call returns found = false.
C14_IteratorVisitsEachOnce ==
    /\ \A i \in 1..Len(entries) :
          i <= EntryCount =>
             /\ entries[i].found
             /\ entries[i].value \in LiveEntries(Now, NowHm("M"))
             /\ entries[i].key = Slot(Now, entries[i].value).key
             /\ \A j \in 1..(i - 1) : entries[j].value # entries[i].value
    /\ Len(entries) > EntryCount => ~entries[EntryCount + 1].found

\* ------------------------------------------------------------------
\* The lexer
\* ------------------------------------------------------------------

\* static size_t false_hash = 210667871779, as limbs
false_hash == << 40483, 3272, 49, 0 >>

\* static size_t true_hash = 6383874908, as limbs
true_hash == << 13148, 31874, 1, 0 >>

\* static size_t null_hash = 229417312366851, as limbs
null_hash == << 45315, 24936, 53415, 0 >>

\* the value of an int converted to unsigned char
UnsignedChar(ch) == ch % 256

\* json__lexer_read_ch that counts a consumed LF as any other byte
json__lexer_read_ch_NoNewline(l) ==
    [l EXCEPT !.col = @ + 1,
              !.ch = IF l.read_pos >= l.source.len THEN -1
                     ELSE l.source.bytes[l.read_pos + 1],
              !.pos = l.read_pos,
              !.read_pos = @ + 1]

\* static void json__lexer_read_ch(struct json_lexer *l)
json__lexer_read_ch(l) ==
    [l EXCEPT !.row = IF l.ch = 10 THEN @ + 1 ELSE @,
              !.col = IF l.ch = 10 THEN 1 ELSE @ + 1,
              !.ch = IF l.read_pos >= l.source.len THEN -1
                     ELSE l.source.bytes[l.read_pos + 1],
              !.pos = l.read_pos,
              !.read_pos = @ + 1]

\* json_lexer_init_source that keeps the source name when the copy of the
\* source fails
json_lexer_init_source_KeepName(s, l, spec) ==
    IF ~s.ok
    THEN [H |-> s.H, l |-> [l EXCEPT !.source = s.s], ret |-> FALSE]
    ELSE [H |-> s.H,
          l |-> json__lexer_read_ch(
                    [l EXCEPT !.source = s.s, !.spec = spec, !.row = 1]),
          ret |-> TRUE]

\* json_lexer_init after the copy s of source
json_lexer_init_source(s, l, spec) ==
    IF ~s.ok
    THEN [H |-> json_string_delete(s.H, l.source_name),
          l |-> [l EXCEPT !.source = s.s, !.source_name = ZeroString],
          ret |-> FALSE]
    ELSE [H |-> s.H,
          l |-> json__lexer_read_ch(
                    [l EXCEPT !.source = s.s, !.spec = spec, !.row = 1]),
          ret |-> TRUE]

\* json_lexer_init after the copy n of source_name
json_lexer_init_name(n, l, source, spec) ==
    IF ~n.ok
    THEN [H |-> n.H, l |-> [l EXCEPT !.source_name = n.s], ret |-> FALSE]
    ELSE json_lexer_init_source(json_string_copy(n.H, source),
                                [l EXCEPT !.source_name = n.s], spec)

\* bool json_lexer_init(l, source, source_name, spec)
json_lexer_init(H, l, source, source_name, spec) ==
    json_lexer_init_name(json_string_copy(H, source_name), l, source, spec)

\* void json_lexer_deinit(struct json_lexer *l)
json_lexer_deinit(H, l) ==
    [H |-> json_string_delete(json_string_delete(H, l.source), l.source_name),
     l |-> ZeroLexer]

\* static bool json__lexer_is_valid_identifier_ch(unsigned char ch, bool first_ch)
json__lexer_is_valid_identifier_ch(ch, first_ch) ==
    \/ 97 <= ch /\ ch <= 122
    \/ 65 <= ch /\ ch <= 90
    \/ ch = 95
    \/ ~first_ch /\ 48 <= ch /\ ch <= 57

\* static bool json__is_whitespace(int ch)
json__is_whitespace(ch) == ch = 32 \/ ch = 10 \/ ch = 13 \/ ch = 9

\* static void json__lexer_skip_whitespace(struct json_lexer *l)
RECURSIVE json__lexer_skip_whitespace(_)
json__lexer_skip_whitespace(l) ==
    IF json__is_whitespace(l.ch)
    THEN json__lexer_skip_whitespace(json__lexer_read_ch(l))
    ELSE l

\* (struct json_loc) {.pos = l->pos, .col = l->col, .row = l->row}
LocOf(l) == [row |-> l.row, col |-> l.col, pos |-> l.pos]

\* a token without data: union json_token_data data = {0}
Token(type, loc, len) ==
    [type |-> type, loc |-> loc, len |-> len, string |-> ZeroString]

\* while (json__lexer_is_valid_identifier_ch(l->ch, false)) read_ch(l)
RECURSIVE ReadRun(_)
ReadRun(l) ==
    IF json__lexer_is_valid_identifier_ch(UnsignedChar(l.ch), FALSE)
    THEN ReadRun(json__lexer_read_ch(l))
    ELSE l

\* the bytes source.data[start_pos .. start_pos + len - 1]
RunBytes(l, start_pos, len) ==
    [i \in 1..len |->
        IF start_pos + i <= l.source.len THEN l.source.bytes[start_pos + i]
        ELSE 0]

\* json__lexer_read_token after json_string_create returned s
json__lexer_read_token_string(s, l, start_loc, len) ==
    [H |-> s.H, l |-> l,
     t |-> [type |-> "JSON_TOKEN_IDENTIFIER", loc |-> start_loc, len |-> len,
            string |-> s.s],
     ok |-> s.ok, written |-> TRUE]

\* json__lexer_read_token once the run is read: the hash decides the type
json__lexer_read_token_hash(H, l, ok, start_loc, len, hash) ==
    IF hash = false_hash
    THEN [H |-> H, l |-> l, t |-> Token("JSON_TOKEN_FALSE", start_loc, len),
          ok |-> ok, written |-> FALSE]
    ELSE IF hash = true_hash
    THEN [H |-> H, l |-> l, t |-> Token("JSON_TOKEN_TRUE", start_loc, len),
          ok |-> ok, written |-> FALSE]
    ELSE IF hash = null_hash
    THEN [H |-> H, l |-> l, t |-> Token("JSON_TOKEN_NULL", start_loc, len),
          ok |-> ok, written |-> FALSE]
    ELSE json__lexer_read_token_string(
            json_string_create(H, RunBytes(l, start_loc.pos, len)),
            l, start_loc, len)

\* json__lexer_read_token_run that counts the byte after the run into len
json__lexer_read_token_run_LongLen(H, l, ok, start_loc) ==
    json__lexer_read_token_hash(
        H, l, ok, start_loc, l.pos - start_loc.pos + 1,
        json__hash(RunBytes(l, start_loc.pos, l.pos - start_loc.pos)))

\* json__lexer_read_token from the end l of the run that began at start_loc
json__lexer_read_token_run(H, l, ok, start_loc) ==
    json__lexer_read_token_hash(
        H, l, ok, start_loc, l.pos - start_loc.pos,
        json__hash(RunBytes(l, start_loc.pos, l.pos - start_loc.pos)))

\* static struct json_token json__lexer_read_token(l, ok)
json__lexer_read_token(H, l, ok) ==
    json__lexer_read_token_run(H, ReadRun(l), ok, LocOf(l))

\* the switch of json_lexer_next_token
TokenTypeOf(ch) ==
    CASE ch = -1 -> "JSON_TOKEN_EOF"
      [] ch = 123 -> "JSON_TOKEN_LBRACE"
      [] ch = 125 -> "JSON_TOKEN_RBRACE"
      [] ch = 91 -> "JSON_TOKEN_LBRACKET"
      [] ch = 93 -> "JSON_TOKEN_RBRACKET"
      [] ch = 44 -> "JSON_TOKEN_COMMA"
      [] ch = 58 -> "JSON_TOKEN_COLON"
      [] OTHER -> "JSON_TOKEN_INVALID"

\* json_lexer_next_token_at that returns a one-byte token without reading on
json_lexer_next_token_at_NoAdvance(H, l, ok) ==
    IF /\ TokenTypeOf(l.ch) = "JSON_TOKEN_INVALID"
       /\ json__lexer_is_valid_identifier_ch(UnsignedChar(l.ch), TRUE)
    THEN json__lexer_read_token(H, l, ok)
    ELSE [H |-> H, l |-> l,
          t |-> Token(TokenTypeOf(l.ch), LocOf(l), 1),
          ok |-> ok, written |-> FALSE]

\* json_lexer_next_token after json__lexer_skip_whitespace
json_lexer_next_token_at(H, l, ok) ==
    IF /\ TokenTypeOf(l.ch) = "JSON_TOKEN_INVALID"
       /\ json__lexer_is_valid_identifier_ch(UnsignedChar(l.ch), TRUE)
    THEN json__lexer_read_token(H, l, ok)
    ELSE [H |-> H, l |-> json__lexer_read_ch(l),
          t |-> Token(TokenTypeOf(l.ch), LocOf(l), 1),
          ok |-> ok, written |-> FALSE]

\* struct json_token json_lexer_next_token(struct json_lexer *l, bool *ok)
json_lexer_next_token(H, l, ok) ==
    json_lexer_next_token_at(H, json__lexer_skip_whitespace(l), ok)

\* ------------------------------------------------------------------
\* A caller of the lexer: json_lexer_init on a source, json_lexer_next_token
\* in a loop with one success flag (bool ok = true before the loop), then
\* json_lexer_deinit; it may also call json_lexer_init on a lexer it has
\* used and not cleared
\* ------------------------------------------------------------------

\* the length of the sources built from LexBytes
MaxSrcLen == 3

\* the length of the sources built from AllLexBytes
MaxShortLen == 2

\* the json_lexer_next_token calls after one json_lexer_init
MaxTokens == 5

\* the length of the first source of a lexer that is initialised twice
MaxAgainLen == 1

\* { } , space LF a 1 and the byte 255
LexBytes == { 123, 125, 44, 32, 10, 97, 49, 255 }

\* LexBytes and [ ] : tab CR _ NUL @ Z
AllLexBytes == LexBytes \cup { 91, 93, 58, 9, 13, 95, 0, 64, 90 }

SeqsUpTo(S, n) == UNION { [1..k -> S] : k \in 0..n }

\* "true falsex null", "true", "false", "null", "IobxZ", "{ }" with LF
NamedSources ==
    { << 116, 114, 117, 101, 32, 102, 97, 108, 115, 101, 120, 32, 110, 117,
         108, 108 >>,
      << 116, 114, 117, 101 >>, << 102, 97, 108, 115, 101 >>,
      << 110, 117, 108, 108 >>, << 73, 111, 98, 120, 90 >>,
      << 123, 10, 125 >> }

Sources ==
    SeqsUpTo(LexBytes, MaxSrcLen) \cup SeqsUpTo(AllLexBytes, MaxShortLen)
    \cup NamedSources

\* the sources of a second json_lexer_init: "{}" and "a"
AgainSources == { << 123, 125 >>, << 97 >> }

\* JSON_STR("test.json"), shortened to "t"
SourceName == JSON_STR(<< 116 >>)

\* the last lexer call:
\*   ready    the lexer is initialised (init returned true, no deinit since)
\*   zeroed   the struct was all zero at the last json_lexer_init
\*   before   the struct as the last json_lexer_init found it
\*   ok       the caller's success flag
NoLexCall ==
    [op |-> "none", ready |-> FALSE, zeroed |-> TRUE, before |-> ZeroLexer,
     src |-> << >>, fail |-> 0, ok |-> TRUE, failed |-> FALSE, frees |-> 0]

LexInit ==
    /\ mem = << >>
    /\ live = {}
    /\ freed = {}
    /\ bad = {}
    /\ nextp = 1
    /\ ub = FALSE
    /\ obj = [o \in Objs |-> [_hm |-> NULL]]
    /\ gone = {}
    /\ tmp = InvalidValue
    /\ abs = << >>
    /\ last = NoLexCall
    /\ nops = 0
    /\ shapes = Shapes
    /\ iterator = NoIterator
    /\ entries = << >>
    /\ lexer = ZeroLexer
    /\ tokens = << >>
    /\ buffer = ZeroByteArray

\* json_lexer_init returned r
LexerInitDone(r, src, fail) ==
    /\ Commit(r.H)
    /\ lexer' = r.l
    /\ tokens' = << >>
    /\ last' = [op |-> "json_lexer_init", ready |-> r.ret,
                zeroed |-> lexer = ZeroLexer, before |-> lexer, src |-> src,
                fail |-> fail, ok |-> TRUE,
                failed |-> fail > 0 /\ r.H.fail = 0, frees |-> r.H.frees]
    /\ nops' = nops + 1
    /\ UNCHANGED << buffer, obj, gone, tmp, abs, shapes, iterator, entries >>

\* json_lexer_init(&l, source, JSON_STR("t"), JSON_SPEC_JSON) on a lexer
\* that is all zero
LexerInit(src, fail) ==
    /\ lexer = ZeroLexer
    /\ nops = 0
    /\ LexerInitDone(json_lexer_init(Heap(fail, FALSE, FALSE), lexer,
                                     JSON_STR(src), SourceName,
                                     "JSON_SPEC_JSON"),
                     src, fail)

\* json_lexer_init on a lexer that was used and not passed to
\* json_lexer_deinit
LexerInitAgain(src) ==
    /\ last.ready
    /\ nops = 1
    /\ Len(last.src) <= MaxAgainLen
    /\ LexerInitDone(json_lexer_init(Now, lexer, JSON_STR(src), SourceName,
                                     "JSON_SPEC_JSON"),
                     src, 0)

\* json_lexer_next_token returned r
NextTokenDone(r, fail) ==
    /\ Commit(r.H)
    /\ lexer' = r.l
    /\ tokens' = Append(tokens,
                        [t |-> r.t, ok |-> r.ok, written |-> r.written,
                         fail |-> fail, failed |-> fail > 0 /\ r.H.fail = 0,
                         from |-> lexer, to |-> r.l])
    /\ last' = [last EXCEPT !.op = "json_lexer_next_token", !.ok = r.ok]
    /\ UNCHANGED << buffer, obj, gone, tmp, abs, shapes, iterator, entries, nops >>

\* token = json_lexer_next_token(&l, &ok)
NextToken(fail) ==
    /\ last.ready
    /\ ~ub
    /\ Len(tokens) < MaxTokens
    /\ fail <= Allocations(json_lexer_next_token(Now, lexer, last.ok).H)
    /\ NextTokenDone(json_lexer_next_token(Heap(fail, FALSE, FALSE), lexer,
                                           last.ok),
                     fail)

\* json_lexer_deinit returned r
LexerDeinitDone(r) ==
    /\ Commit(r.H)
    /\ lexer' = r.l
    /\ last' = [last EXCEPT !.op = "json_lexer_deinit", !.ready = FALSE,
                            !.before = lexer, !.frees = r.H.frees]
    /\ UNCHANGED << buffer, obj, gone, tmp, abs, shapes, iterator, entries, nops,
                    tokens >>

\* json_lexer_deinit(&l), also on a lexer whose json_lexer_init failed or
\* that was passed to json_lexer_deinit before
LexerDeinit ==
    /\ last.op # "none"
    /\ LexerDeinitDone(json_lexer_deinit(Now, lexer))

NextLex ==
    \/ \E src \in Sources, fail \in 0..2 : LexerInit(src, fail)
    \/ \E src \in AgainSources : LexerInitAgain(src)
    \/ \E fail \in 0..1 : NextToken(fail)
    \/ LexerDeinit

SpecLexer == LexInit /\ [][NextLex]_vars

\* ------------------------------------------------------------------
\* Properties of the lexer, read off the tokens returned (SpecLexer)
\* ------------------------------------------------------------------

PunctuationBytes == { 123, 125, 91, 93, 44, 58 }
WhitespaceBytes == { 32, 9, 13, 10 }

\* the token type the JSON grammar gives a punctuation byte
PunctuationType(b) ==
    CASE b = 123 -> "JSON_TOKEN_LBRACE"
      [] b = 125 -> "JSON_TOKEN_RBRACE"
      [] b = 91 -> "JSON_TOKEN_LBRACKET"
      [] b = 93 -> "JSON_TOKEN_RBRACKET"
      [] b = 44 -> "JSON_TOKEN_COMMA"
      [] b = 58 -> "JSON_TOKEN_COLON"

\* the 1-based index of the last LF before index i of src, or 0
LastLF(src, i) ==
    LET lfs == { j \in 1..(i - 1) : src[j] = 10 }
    IN  IF lfs = {} THEN 0 ELSE CHOOSE j \in lfs : \A k \in lfs : k <= j

\* the location of the byte at 1-based index i of src
ExpectedLoc(src, i) ==
    [row |-> 1 + Cardinality({ j \in 1..(i - 1) : src[j] = 10 }),
     col |-> i - LastLF(src, i),
     pos |-> i - 1]

\* one token per punctuation byte from index i on, then EOF
RECURSIVE ExpectedFrom(_, _)
ExpectedFrom(src, i) ==
    IF i > Len(src)
    THEN << [type |-> "JSON_TOKEN_EOF", loc |-> ExpectedLoc(src, i),
             len |-> 1, string |-> ZeroString] >>
    ELSE IF src[i] \in PunctuationBytes
    THEN << [type |-> PunctuationType(src[i]), loc |-> ExpectedLoc(src, i),
             len |-> 1, string |-> ZeroString] >>
         \o ExpectedFrom(src, i + 1)
    ELSE ExpectedFrom(src, i + 1)

\* the lexer was all zero when json_lexer_init, which returned true, was
\* called on the source last.src
FromZeroLexer ==
    /\ last.op \in {"json_lexer_init", "json_lexer_next_token",
                    "json_lexer_deinit"}
    /\ last.zeroed
    /\ ~last.failed

\* C15: for a source of punctuation bytes and whitespace tokenised from a
\* zero-initialised lexer, the tokens up to the first EOF are one token per
\* punctuation byte, in order, with the matching type and len 1, then EOF;
\* loc.pos is the byte's offset (the source length for EOF), loc.row is 1
\* plus the LF bytes before it, loc.col is 1 plus the bytes since the last
\* LF.
C15_PunctuationTokens ==
    (/\ FromZeroLexer
     /\ \A i \in 1..Len(last.src) :
            last.src[i] \in PunctuationBytes \cup WhitespaceBytes)
    => \A k \in 1..Len(tokens) :
          k <= Len(ExpectedFrom(last.src, 1))
             => tokens[k].t = ExpectedFrom(last.src, 1)[k]

\* the source "{", LF, "}" read to its EOF token at row 2, col 2, pos 3
C15_Witness ==
    /\ FromZeroLexer
    /\ last.src = << 123, 10, 125 >>
    /\ Len(tokens) = 3
    /\ tokens[2].t.loc = [row |-> 2, col |-> 1, pos |-> 2]
    /\ tokens[3].t.type = "JSON_TOKEN_EOF"
    /\ tokens[3].t.loc = [row |-> 2, col |-> 2, pos |-> 3]

\* the bytes json__lexer_is_valid_identifier_ch accepts inside a run
IdentifierBytes == (97..122) \cup (65..90) \cup {95} \cup (48..57)

TrueBytes == << 116, 114, 117, 101 >>
FalseBytes == << 102, 97, 108, 115, 101 >>
NullBytes == << 110, 117, 108, 108 >>
KeywordRuns == { TrueBytes, FalseBytes, NullBytes }

\* the 1-based index just past the maximal identifier run from index i
RECURSIVE RunEnd(_, _)
RunEnd(src, i) ==
    IF i > Len(src) \/ src[i] \notin IdentifierBytes THEN i
    ELSE RunEnd(src, i + 1)

\* the maximal identifier run of src that starts at byte offset pos
RunAt(src, pos) == SubSeq(src, pos + 1, RunEnd(src, pos + 1) - 1)

StartsWithKeyword(run) ==
    \E kw \in KeywordRuns :
        Len(run) >= Len(kw) /\ SubSeq(run, 1, Len(kw)) = kw

\* the token type of a run that starts with a keyword
KeywordType(run) ==
    CASE run = TrueBytes -> "JSON_TOKEN_TRUE"
      [] run = FalseBytes -> "JSON_TOKEN_FALSE"
      [] run = NullBytes -> "JSON_TOKEN_NULL"
      [] OTHER -> "JSON_TOKEN_IDENTIFIER"

\* C16: an identifier-shaped run that is exactly true, false or null is
\* returned as the TRUE, FALSE or NULL token, and a longer run that starts
\* with a keyword as IDENTIFIER; so the source "true falsex null" yields
\* TRUE, IDENTIFIER, NULL, EOF in that order.
C16_KeywordTokens ==
    FromZeroLexer
    => \A k \in 1..Len(tokens) :
          (/\ tokens[k].t.type # "JSON_TOKEN_EOF"
           /\ tokens[k].t.loc.pos < Len(last.src)
           /\ StartsWithKeyword(RunAt(last.src, tokens[k].t.loc.pos)))
          => tokens[k].t.type
                = KeywordType(RunAt(last.src, tokens[k].t.loc.pos))

\* C17: after a json_lexer_init that returns true on a non-empty source,
\* whatever the lexer struct held before the call, the lexer has pos = 0,
\* read_pos = 1, row = 1, col = 1 and ch equal to the first source byte.
C17_InitResetsCursor ==
    (/\ last.op = "json_lexer_init"
     /\ ~last.failed
     /\ Len(last.src) > 0)
    => /\ lexer.pos = 0
       /\ lexer.read_pos = 1
       /\ lexer.row = 1
       /\ lexer.col = 1
       /\ lexer.ch = last.src[1]

\* C18: every json_lexer_next_token call that returns a non-EOF token t
\* leaves the cursor exactly past it: afterwards lexer.pos is t.loc.pos +
\* t.len, which does not exceed the source length, and the token returned
\* next starts at a position of at least t.loc.pos + t.len.
C18_CursorPastToken ==
    \A k \in 1..Len(tokens) :
        tokens[k].t.type # "JSON_TOKEN_EOF"
        => /\ tokens[k].to.pos = tokens[k].t.loc.pos + tokens[k].t.len
           /\ tokens[k].t.loc.pos + tokens[k].t.len
                 <= tokens[k].from.source.len
           /\ k < Len(tokens)
              => tokens[k + 1].t.loc.pos
                    >= tokens[k].t.loc.pos + tokens[k].t.len

\* the source "a1{": the identifier of 2 bytes at 0 leaves the cursor at 2,
\* where the left brace is returned next
C18_Witness ==
    /\ Len(tokens) >= 2
    /\ tokens[1].from.source.bytes = << 97, 49, 123 >>
    /\ tokens[1].t.type = "JSON_TOKEN_IDENTIFIER"
    /\ tokens[1].t.len = 2
    /\ tokens[1].to.pos = 2
    /\ tokens[2].t.type = "JSON_TOKEN_LBRACE"
    /\ tokens[2].t.loc.pos = 2
    /\ tokens[2].to.pos = 3

\* C19: for a source of n bytes of any values, repeated
\* json_lexer_next_token calls return an EOF token within the first n + 1
\* calls, and every call that returns a non-EOF token consumes at least one
\* source byte.
C19_EofWithinLengthPlusOne ==
    /\ Len(tokens) >= Len(last.src) + 1
       => \E k \in 1..(Len(last.src) + 1) :
             tokens[k].t.type = "JSON_TOKEN_EOF"
    /\ \A k \in 1..Len(tokens) :
          tokens[k].t.type # "JSON_TOKEN_EOF"
          => /\ tokens[k].to.pos >= tokens[k].from.pos + 1
             /\ tokens[k].to.read_pos >= tokens[k].from.read_pos + 1

\* the source of the byte 255, "," and "}": three one-byte tokens and the
\* EOF token at the fourth call, not earlier
C19_Witness ==
    /\ last.src = << 255, 44, 125 >>
    /\ Len(tokens) = 4
    /\ \A k \in 1..3 : tokens[k].t.type # "JSON_TOKEN_EOF"
    /\ tokens[1].t.type = "JSON_TOKEN_INVALID"
    /\ tokens[4].t.type = "JSON_TOKEN_EOF"

\* the 1-based index of the first byte of src at or after index i that is
\* not whitespace
RECURSIVE SkipWhitespace(_, _)
SkipWhitespace(src, i) ==
    IF i <= Len(src) /\ src[i] \in WhitespaceBytes
    THEN SkipWhitespace(src, i + 1)
    ELSE i

\* the byte offset of the current byte of call k once whitespace is skipped
CurrentAt(k) == SkipWhitespace(last.src, tokens[k].from.pos + 1) - 1

\* call k found a letter or an underscore as its current byte
AtIdentifierStart(k) ==
    /\ CurrentAt(k) < Len(last.src)
    /\ last.src[CurrentAt(k) + 1] \in IdentifierBytes \ (48..57)

\* C20: when the current byte is a letter or underscore,
\* json_lexer_next_token consumes the maximal run of letters, digits and
\* underscores; if the run is not one of the three keywords the token is an
\* IDENTIFIER whose len is the run length and whose string is an owned copy
\* of exactly those bytes with the success flag set to true, and if the
\* copy's allocation fails the success flag is set to false.
C20_IdentifierToken ==
    FromZeroLexer
    => \A k \in 1..Len(tokens) :
          AtIdentifierStart(k)
          => /\ tokens[k].to.pos
                   = CurrentAt(k) + Len(RunAt(last.src, CurrentAt(k)))
             /\ RunAt(last.src, CurrentAt(k)) \notin KeywordRuns
                => /\ tokens[k].t.type = "JSON_TOKEN_IDENTIFIER"
                   /\ tokens[k].t.len = Len(RunAt(last.src, CurrentAt(k)))
                   /\ tokens[k].written
                   /\ tokens[k].ok = ~tokens[k].failed
                   /\ ~tokens[k].failed
                      => /\ tokens[k].t.string.bytes
                               = RunAt(last.src, CurrentAt(k))
                         /\ tokens[k].t.string.len = tokens[k].t.len
                         /\ tokens[k].t.string.data \in live
                         /\ tokens[k].t.string.data
                               # tokens[k].from.source.data

\* the heap blocks a lexer struct refers to
LexerBuffers(l) ==
    { s.data : s \in { x \in {l.source, l.source_name} : x.len > 0 } }

\* C21: json_lexer_init copies the source and the source name into storage
\* the lexer owns; if either copy fails it returns false and the lexer holds
\* no allocated buffer (a source-name copy already made is released);
\* json_lexer_deinit releases both buffers exactly once and zeroes the
\* lexer, so a second json_lexer_deinit releases nothing.
C21_LexerOwnsItsBuffers ==
    /\ (last.op = "json_lexer_init" /\ last.ready)
       => /\ ~last.failed
          /\ lexer.source.bytes = last.src
          /\ lexer.source.len = Len(last.src)
          /\ lexer.source_name.bytes = SourceName.bytes
          /\ LexerBuffers(lexer) \subseteq live
          /\ Cardinality(LexerBuffers(lexer))
                = (IF Len(last.src) > 0 THEN 2 ELSE 1)
          /\ LexerBuffers(lexer) \cap LexerBuffers(last.before) = {}
          /\ SourceName.data \notin LexerBuffers(lexer)
    /\ (last.op = "json_lexer_init" /\ last.zeroed /\ last.failed)
       => /\ ~last.ready
          /\ lexer.source.len = 0
          /\ lexer.source_name.len = 0
          /\ live = {}
          /\ bad = {}
    /\ last.op = "json_lexer_deinit"
       => /\ lexer = ZeroLexer
          /\ LexerBuffers(last.before) \subseteq freed
          /\ LexerBuffers(last.before) \cap live = {}
          /\ last.frees = Cardinality(LexerBuffers(last.before))
          /\ bad = {}
          /\ ~ub

\* a second json_lexer_deinit, after the first released the two buffers of
\* a lexer that had returned tokens: it releases nothing
C21_Witness ==
    /\ last.op = "json_lexer_deinit"
    /\ ~last.failed
    /\ Len(tokens) > 0
    /\ last.before = ZeroLexer
    /\ last.frees = 0
    /\ Cardinality(freed) = 2
    /\ bad = {}

\* ------------------------------------------------------------------
\* Properties of the array constructors (SpecCtor)
\* ------------------------------------------------------------------

\* the call returned a new array of the items expected, through a valid ok
\* that it set to true, and released nothing the caller held
NewArrayOf(expected) ==
    /\ ~last.signal
    /\ ~ub
    /\ last.written
    /\ last.ok
    /\ last.v.type = "Array"
    /\ last.v.array.len = Len(expected)
    /\ Len(last.v.array.elems) = Len(expected)
    /\ \A i \in 1..Len(expected) : last.v.array.elems[i] = expected[i]
    /\ last.v.array.items \notin last.pre.live \cup {STACK_items}
    /\ last.pre.live \subseteq live
    /\ last.frees = 0

\* C22: with allocation succeeding, json_array_copy(arr) returns an array
\* of the same length whose i-th item equals arr's i-th item, and
\* json_array_concat(left, right) returns an array of length left.len +
\* right.len whose items are left's items in order followed by right's;
\* neither call modifies its inputs and both set ok to true.
C22_CopyAndConcatItems ==
    /\ (last.op = "json_array_copy" /\ last.given /\ ~AllocationFailed)
       => NewArrayOf(last.arg[1].array.elems)
    /\ (last.op = "json_array_concat" /\ last.given /\ ~AllocationFailed)
       => NewArrayOf([i \in 1..(last.arg[1].array.len + last.arg[2].array.len)
                        |-> IF i <= last.arg[1].array.len
                            THEN last.arg[1].array.elems[i]
                            ELSE last.arg[2].array.elems[
                                     i - last.arg[1].array.len]])

\* json_array_concat of the temporary [1] and the array [null, true] the
\* caller holds from a json_array_copy returned [1, null, true]
C22_Witness ==
    /\ last.op = "json_array_concat"
    /\ last.ok
    /\ last.pre.tmp.type = "Array"
    /\ last.arg[2] = last.pre.tmp
    /\ last.arg[2].array.items \in live
    /\ last.v.array.len = 3
    /\ last.v.array.elems
          = << json_number(1), json_null, json_boolean(TRUE) >>

\* ------------------------------------------------------------------
\* The object against the key -> value map its calls describe (Spec)
\* ------------------------------------------------------------------

\* only json_object_set and json_object_del calls on M are in effect: no
\* copy of M exists, nothing was deleted as a whole, no value copy is held
OnlySetAndDel ==
    /\ Usable("M")
    /\ obj["M2"]._hm = NULL
    /\ gone = {}
    /\ tmp = InvalidValue
    /\ last.op \in {"none", "set", "del"}
    /\ ~ub

\* C23: for any sequence of json_object_set and json_object_del calls on
\* one object (allocations succeeding, keys of any length including 0),
\* json_object_get(k) reports found exactly when k is in the abstract map
\* driven by the same calls and then returns its value, and each
\* json_object_del(k) returns true exactly when k was in the abstract map
\* before the call.
C23_ObjectRefinesMap ==
    OnlySetAndDel
    => /\ \A k \in Keys :
            NowGets["M"][k]
               = (IF k \in DOMAIN abs THEN Found(abs[k])
                  ELSE [found |-> FALSE, value |-> NowGets["M"][k].value])
       /\ last.op = "del"
          => (last.ret <=> last.key \in DOMAIN last.pre.abs)

\* ------------------------------------------------------------------
\* A caller that fills one object while allocations may fail and
\* JSON_REALLOC may move the block it enlarges: json_object_set of keys not
\* yet in the object (each goes through json__hash_map_insert) and
\* json_object_del of keys that are in it
\* ------------------------------------------------------------------

\* the number of calls of such a behaviour
MaxInsertOps == 6

\* the allocations of one json_object_set that are tried as the failing one
MaxInsertFailAt == 8

\* the keys, in the order the caller adds them: "h", "p", "", "x", "d", "l"
\* (one home bucket while bucket_cap is 4; two while it is 8)
InsertKeys == << << 104 >>, << 112 >>, << >>, << 120 >>, << 100 >>, << 108 >> >>

InsertKeySet == { InsertKeys[i] : i \in 1..Len(InsertKeys) }

\* the value the caller stores under the i-th key
InsertValue(i) == json_number(i)

\* the first key of InsertKeys the object does not hold
NextInsert ==
    CHOOSE i \in 1..Len(InsertKeys) :
        /\ InsertKeys[i] \notin DOMAIN abs
        /\ \A j \in 1..(i - 1) : InsertKeys[j] \in DOMAIN abs

InsertCanCall ==
    /\ nops < MaxInsertOps
    /\ ~ub
    /\ Usable("M")

InsertInit == Init /\ shapes = DeepShapes

\* json_object_set(&M, key, value) returned r; the record keeps the failing
\* allocation only if the call reached it
InsertNewDone(r, k, value, fail) ==
    /\ Commit(r.H)
    /\ last' = Call("set", "M", k, value, r.ok,
                    IF r.H.fail = 0 THEN fail ELSE 0, "none")
    /\ abs' = IF r.ok THEN (k :> value) @@ abs ELSE abs
    /\ nops' = nops + 1
    /\ UNCHANGED << buffer, obj, gone, tmp, shapes, iterator, entries,
                 lexer, tokens >>

\* json_object_set(&M, key, value) of the i-th key
InsertNewAt(i, fail, reloc) ==
    InsertNewDone(json_object_set(Heap(fail, reloc, FALSE), obj["M"],
                                  JSON_STR(InsertKeys[i]), InsertValue(i)),
                  InsertKeys[i], InsertValue(i), fail)

\* json_object_set(&M, key, value) of the next key the object does not hold
InsertNew(fail, reloc) ==
    /\ InsertCanCall
    /\ DOMAIN abs # InsertKeySet
    /\ InsertNewAt(NextInsert, fail, reloc)

\* json_object_del(&M, key) of a key the object holds
InsertDel(k) ==
    /\ InsertCanCall
    /\ k \in DOMAIN abs
    /\ ObjectDelDone(json_object_del(Now, obj["M"], JSON_STR(k)), "M", k)
    /\ nops' = nops + 1
    /\ UNCHANGED << buffer, obj, gone, tmp, shapes, iterator, entries,
                 lexer, tokens >>

NextInsertOp ==
    \/ \E fail \in 0..MaxInsertFailAt, reloc \in BOOLEAN : InsertNew(fail, reloc)
    \/ \E k \in InsertKeySet : InsertDel(k)

SpecInsert == InsertInit /\ [][NextInsertOp]_vars

\* ------------------------------------------------------------------
\* Properties of json__hash_map_insert and json__hash_map_grow (SpecInsert)
\* ------------------------------------------------------------------

\* the last call was a json_object_set that went through
\* json__hash_map_insert
Inserted == last.op = "set" /\ last.o = "M" /\ ~ub

\* the insert enlarged the collisions array of the map it was given, and
\* the allocator returned the enlarged array at another address
EnlargedElsewhere ==
    /\ Inserted
    /\ last.ret
    /\ NowHm("M").bucket = PreHm("M").bucket
    /\ NowHm("M").collisions # PreHm("M").collisions

\* the link `before` of an entry of the old arrays is, in the entry `now` at
\* the same place of the current arrays, a link to the same slot of the
\* current collisions array
SameLogicalLink(before, now) ==
    before # NullPtr
    => now = [blk |-> NowHm("M").collisions, idx |-> before.idx]

\* C24: whenever json__hash_map_insert enlarges the collisions array and
\* the allocator hands back the enlarged array at a different address, every
\* existing chain link still designates the same logical collisions slot as
\* before, the new entry is linked at the end of its chain inside the
\* enlarged array, and every live entry remains reachable by
\* json__hash_map_get.
C24_LinksSurviveRealloc ==
    EnlargedElsewhere
    => /\ \A i \in 0..(PreHm("M").bucket_cap - 1) :
            SameLogicalLink(
                Slot(last.pre.H, [blk |-> PreHm("M").bucket, idx |-> i]).next,
                Slot(Now, [blk |-> NowHm("M").bucket, idx |-> i]).next)
       /\ \A j \in 0..(PreHm("M").collisions_size - 1) :
            SameLogicalLink(
                Slot(last.pre.H, [blk |-> PreHm("M").collisions, idx |-> j]).next,
                Slot(Now, [blk |-> NowHm("M").collisions, idx |-> j]).next)
       /\ LET c == Chain(Now, NowHm("M"),
                         HomeBucket(NowHm("M"), JSON_STR(last.key)).idx)
          IN  /\ Len(c) > 0
              /\ c[Len(c)] = [blk |-> NowHm("M").collisions,
                              idx |-> PreHm("M").collisions_size]
              /\ Slot(Now, c[Len(c)]).key.bytes = last.key
       /\ \A p \in LiveEntries(Now, NowHm("M")) : p.blk \in live
       /\ \A k \in DOMAIN abs :
            json_object_get(Now, obj["M"], JSON_STR(k)) = Found(abs[k])

\* C25: after any sequence of json_object_set and json_object_del calls,
\* growth included, no two live entries of the object (bucket heads or
\* entries reachable through chains) have equal keys.
C25_KeysAreUnique ==
    (Usable("M") /\ ~ub)
    => \A p, q \in LiveEntries(Now, NowHm("M")) :
          p # q => ~json_string_eq(Slot(Now, p).key, Slot(Now, q).key)

\* the map has grown, holds three keys, two of them on one chain, and the
\* last call set a key the object already held
C25_Witness ==
    /\ Usable("M") /\ ~ub
    /\ last.op = "set" /\ last.o = "M" /\ last.ret
    /\ last.key \in DOMAIN last.pre.abs
    /\ NowHm("M").bucket_cap > JSON_INITIAL_BUCKET_SIZE
    /\ Cardinality(LiveEntries(Now, NowHm("M"))) = 3
    /\ \E i \in 0..(NowHm("M").bucket_cap - 1) :
            Len(Chain(Now, NowHm("M"), i)) >= 2

\* the insert of the last call found the map over the load factor once it
\* had counted its entry, and so called json__hash_map_grow
GrowAttempted ==
    /\ Inserted
    /\ last.ret
    /\ OverLoadFactor([PreHm("M") EXCEPT !.bucket_size = @ + 1])

\* json__hash_map_grow put its new arrays in place
GrowSucceeded == GrowAttempted /\ NowHm("M").bucket # PreHm("M").bucket

\* an allocation of json__hash_map_grow failed and the old arrays stayed
GrowFailed ==
    /\ GrowAttempted
    /\ last.fail > 0
    /\ NowHm("M").bucket = PreHm("M").bucket

C27_BucketSizeCountsLive ==
    \A o \in Objs :
        (Usable(o) /\ ~ub)
        => NowHm(o).bucket_size = Cardinality(LiveEntries(Now, NowHm(o)))

\* what json_object_get answers for the caller's keys
InsertGets(H, o) ==
    [k \in InsertKeySet |-> json_object_get(H, o, JSON_STR(k))]

\* C28: if json__hash_map_insert returns false (the key copy or the
\* enlargement of the collisions array failed), the bucket contents, the
\* chains, bucket_size and collisions_size are as before the call and every
\* key stored before is still retrievable with its value; only the capacity
\* of the collisions array may have changed.
C28_FailedInsertChangesNothing ==
    (Inserted /\ ~last.ret)
    => /\ last.fail > 0
       /\ NowHm("M").bucket = PreHm("M").bucket
       /\ NowHm("M").bucket_cap = PreHm("M").bucket_cap
       /\ NowHm("M").bucket_size = PreHm("M").bucket_size
       /\ NowHm("M").collisions_size = PreHm("M").collisions_size
       /\ mem[NowHm("M").bucket] = last.pre.H.mem[PreHm("M").bucket]
       /\ \A j \in 0..(PreHm("M").collisions_size - 1) :
            Slot(Now, [blk |-> NowHm("M").collisions, idx |-> j])
               = Slot(last.pre.H, [blk |-> PreHm("M").collisions, idx |-> j])
       /\ \A i \in 0..(PreHm("M").bucket_cap - 1) :
            Chain(Now, NowHm("M"), i) = Chain(last.pre.H, PreHm("M"), i)
       /\ InsertGets(Now, obj["M"]) = InsertGets(last.pre.H, last.pre.obj["M"])
       /\ \A k \in DOMAIN abs : InsertGets(Now, obj["M"])[k] = Found(abs[k])
       /\ abs = last.pre.abs

\* the enlargement of the collisions array failed: the second allocation
\* of the insert, on a chain of four entries
C28_Witness ==
    /\ Inserted
    /\ ~last.ret
    /\ last.fail = 2
    /\ PreHm("M").collisions_size = 3
    /\ PreHm("M").collisions_cap = JSON_INITIAL_BUCKET_SIZE
    /\ Cardinality(DOMAIN abs) = 4

\* an allocation made by json__hash_map_grow failed during the last call:
\* the call got past its own key copy and enlargement, which make it
\* return false
GrowAllocationFailed ==
    /\ last.op = "set"
    /\ last.o = "M"
    /\ last.fail > 0
    /\ ub \/ last.ret

\* the blocks holding the map before the call, with the key copy the insert
\* made
BlocksWithNewKey ==
    Cardinality(last.pre.H.live) + (IF Len(last.key) > 0 THEN 1 ELSE 0)

\* C29: if any allocation made by json__hash_map_grow fails (the new bucket
\* array, the new collisions array, a key copy during re-insertion, an
\* enlargement of the new collisions array), grow returns false, the
\* original map is unmodified, all storage allocated for the new structure
\* is released, and the insert that triggered the growth still returns
\* true.
C29_FailedGrowLeavesMap ==
    GrowAllocationFailed
    => /\ ~ub
       /\ last.ret
       /\ NowHm("M").bucket = PreHm("M").bucket
       /\ NowHm("M").bucket_cap = PreHm("M").bucket_cap
       /\ NowHm("M").bucket_size = PreHm("M").bucket_size + 1
       /\ \A k \in DOMAIN abs :
            json_object_get(Now, obj["M"], JSON_STR(k)) = Found(abs[k])
       /\ Cardinality(live) = BlocksWithNewKey
       /\ bad = last.pre.H.bad

\* the live entries of a map that are not stored at a bucket head
ChainedEntries(H, hm) == { p \in LiveEntries(H, hm) : p.blk # hm.bucket }

\* C30: a successful json__hash_map_grow leaves bucket_cap and
\* collisions_cap equal to the old bucket_cap times JSON_GROWTH_FACTOR,
\* holds exactly the entries that were live before (same keys, same
\* values), and has no vacated gaps: bucket_size is the number of live
\* entries and collisions_size the number of live entries not stored at a
\* bucket head.
C30_GrowRebuildsMap ==
    GrowSucceeded
    => /\ NowHm("M").bucket_cap = PreHm("M").bucket_cap * JSON_GROWTH_FACTOR
       /\ NowHm("M").collisions_cap
             = PreHm("M").bucket_cap * JSON_GROWTH_FACTOR
       /\ \A k \in InsertKeySet :
            json_object_get(Now, obj["M"], JSON_STR(k))
               = (IF k \in DOMAIN abs THEN Found(abs[k])
                  ELSE [found |-> FALSE, value |-> InvalidValue])
       /\ NowHm("M").bucket_size
             = Cardinality(LiveEntries(Now, NowHm("M")))
       /\ NowHm("M").bucket_size = Cardinality(DOMAIN abs)
       /\ NowHm("M").collisions_size
             = Cardinality(ChainedEntries(Now, NowHm("M")))

\* ------------------------------------------------------------------
\* The shape of the chains
\* ------------------------------------------------------------------

\* the next link of an entry is NULL or &hm->collisions[j], j < collisions_size
LinkInside(hm, next) ==
    \/ next = NullPtr
    \/ /\ next.blk = hm.collisions
       /\ next.idx >= 0
       /\ next.idx < hm.collisions_size

\* the chain of bucket i: every key hashes to i, no entry is met twice, the
\* walk ends on a NULL link, every link stays inside the used collisions
ChainWellFormed(H, hm, i) ==
    /\ \A j \in 1..Len(Chain(H, hm, i)) :
         /\ HashMod(Hash(Slot(H, Chain(H, hm, i)[j]).key.bytes), hm.bucket_cap)
               = i
         /\ LinkInside(hm, Slot(H, Chain(H, hm, i)[j]).next)
         /\ \A j2 \in 1..Len(Chain(H, hm, i)) :
              Chain(H, hm, i)[j] = Chain(H, hm, i)[j2] => j = j2
    /\ Chain(H, hm, i) # << >>
         => Slot(H, Chain(H, hm, i)[Len(Chain(H, hm, i))]).next = NullPtr

\* C31: in every state reached by insert, set, delete and grow with the
\* allocations succeeding and the collisions array in place, every entry
\* reachable from bucket i has json__hash(key) mod bucket_cap = i, every
\* chain is acyclic, and every next link points at a slot inside
\* collisions[0, collisions_size).
C31_ChainsWellFormed ==
    (Usable("M") /\ ~ub)
    => \A i \in 0..(NowHm("M").bucket_cap - 1) :
         ChainWellFormed(Now, NowHm("M"), i)

\* a head was deleted from a chain of three in a map that has grown
C31_Witness ==
    /\ Usable("M") /\ ~ub
    /\ last.op = "del" /\ last.o = "M" /\ last.ret /\ last.via = "head"
    /\ NowHm("M").bucket_cap > JSON_INITIAL_BUCKET_SIZE
    /\ \E i \in 0..(NowHm("M").bucket_cap - 1) :
         Len(Chain(Now, NowHm("M"), i)) >= 2

\* the buckets whose chain holds the entry p
BucketsReaching(H, hm, p) ==
    { i \in 0..(hm.bucket_cap - 1) :
        \E j \in 1..Len(Chain(H, hm, i)) : Chain(H, hm, i)[j] = p }

\* the used slots of the collisions array that are valid
ValidCollisions(H, hm) ==
    { p \in { [blk |-> hm.collisions, idx |-> j] :
                j \in 0..(hm.collisions_size - 1) } :
        SlotOK(H, p) /\ json__hash_map_entry_valid(Slot(H, p)) }

\* C32: after any sequence of set and delete calls every valid slot of
\* collisions[0, collisions_size) is reachable from exactly one bucket head
\* by next links: a slot json__hash_map_delete vacated is no longer valid.
C32_ValidSlotsAreReachable ==
    (Usable("M") /\ ~ub)
    => \A p \in ValidCollisions(Now, NowHm("M")) :
         Cardinality(BucketsReaching(Now, NowHm("M"), p)) = 1

\* C33: across any sequence of json_object_set, json_object_del, growth and
\* json_object_copy, including copies that fail part-way, every key buffer
\* and every value buffer is released at most once, and only blocks the
\* allocator returned are passed to JSON_FREE.
C33_ReleasedAtMostOnce ==
    (gone = {} /\ last.op \in {"none", "set", "del", "copy"}) => bad = {}

\* the key buffers of the entries the map held when the last call was made
OldKeyCopies(o) ==
    { Slot(last.pre.H, p).key.data :
        p \in { q \in LiveEntries(last.pre.H, PreHm(o)) :
                  Slot(last.pre.H, q).key.len > 0 } }

\* C34: under an allocator whose release really frees, after a growth
\* triggered by json_object_set completes successfully, the hash-map header
\* the object points to and every key and value buffer reachable from the
\* object are still allocated: growth releases only the old bucket array,
\* the old collisions array and the old key copies.
C34_GrowthKeepsWhatIsReachable ==
    (Grew /\ gone = {} /\ ~ub)
    => /\ obj[last.o]._hm \in live
       /\ OwnedByMap(Now, obj[last.o]._hm) \subseteq live
       /\ (freed \ last.pre.H.freed)
             \subseteq ({PreHm(last.o).bucket, PreHm(last.o).collisions}
                        \cup OldKeyCopies(last.o))

\* the number of entry slots allocated for the collisions array of hm
AllocatedCollisions(H, hm) ==
    IF SlotOK(H, [blk |-> hm.collisions, idx |-> 0])
    THEN Len(H.mem[hm.collisions].slots) ELSE 0

\* C35: in every reachable state of a map, also after growth attempts that
\* failed, collisions_cap is the number of entry slots allocated for the
\* collisions array and collisions_size does not exceed it; no insert
\* writes a collisions slot past the allocated ones.
C35_CollisionsCapCountsSlots ==
    (Usable("M") /\ ~ub)
    => /\ NowHm("M").collisions_cap = AllocatedCollisions(Now, NowHm("M"))
       /\ NowHm("M").collisions_size <= AllocatedCollisions(Now, NowHm("M"))

\* C36: once json_lexer_next_token has returned an EOF token, every later
\* call before json_lexer_deinit returns an EOF token with the same row,
\* column and position, and the lexer's pos never exceeds the length of
\* the source.
C36_EofIsSticky ==
    (last.ready /\ ~ub)
    => /\ \A i \in 1..Len(tokens) : \A j \in (i + 1)..Len(tokens) :
            tokens[i].t.type = "JSON_TOKEN_EOF"
            => /\ tokens[j].t.type = "JSON_TOKEN_EOF"
               /\ tokens[j].t.loc = tokens[i].t.loc
       /\ lexer.pos <= lexer.source.len

\* C37: json_lexer_next_token sets the success flag to true on every call
\* that does not suffer an allocation failure, whatever the flag held
\* before the call: also for the punctuation, keyword, unrecognised-byte
\* and EOF tokens that follow a call whose identifier copy failed.
C37_OkSetOnSuccess ==
    \A k \in 1..Len(tokens) : ~tokens[k].failed => tokens[k].ok

\* C38: the three keyword constants equal the hash function applied to the
\* keyword bytes: false_hash = json__hash("false", 5), true_hash =
\* json__hash("true", 4) and null_hash = json__hash("null", 4), where
\* json__hash starts at 5381 and for each byte computes (hash * 33) XOR
\* byte in size_t arithmetic.
\* It is read off the runs json__lexer_read_token hashes: the run a token
\* starts at, when it is one of the keywords.
C38_KeywordHashesMatch ==
    \A k \in 1..Len(tokens) :
        /\ RunAt(last.src, tokens[k].t.loc.pos) = FalseBytes
              => json__hash(RunAt(last.src, tokens[k].t.loc.pos)) = false_hash
        /\ RunAt(last.src, tokens[k].t.loc.pos) = TrueBytes
              => json__hash(RunAt(last.src, tokens[k].t.loc.pos)) = true_hash
        /\ RunAt(last.src, tokens[k].t.loc.pos) = NullBytes
              => json__hash(RunAt(last.src, tokens[k].t.loc.pos)) = null_hash

\* ------------------------------------------------------------------
\* The growable byte array json__array_unsigned_char.  A record
\* [H, arr, err] is the heap, *arr and the array_err a function returned.
\* A block of bytes is kept in the heap by its size only; the bytes
\* items[0 .. len) are the field elems of the array.
\* ------------------------------------------------------------------

\* the bytes allocated at p, 0 at NULL
AllocatedBytes(H, p) ==
    IF p \in DOMAIN H.mem /\ "size" \in DOMAIN H.mem[p] THEN H.mem[p].size
    ELSE 0

\* JSON_REALLOC of the block of bytes p to size bytes
JSON_REALLOC_bytes(H, p, size) ==
    IF H.fail = 1 THEN [H |-> Tick(H), p |-> NULL]
    ELSE IF H.reloc
    THEN [H |-> [Tick(H) EXCEPT !.next = @ + 1,
                                !.live = (@ \ {p}) \cup {H.next},
                                !.freed = @ \cup {p},
                                !.mem = (H.next :> [size |-> size]) @@ @],
          p |-> H.next]
    ELSE [H |-> [Tick(H) EXCEPT !.mem[p] = [size |-> size]], p |-> p]

\* arr->items = JSON_MALLOC(4); if (arr->items == NULL) return ARRAY_OOM;
\* arr->cap = 4
json__array_unsigned_char_grow_first(a, arr) ==
    IF a.p = NULL
    THEN [H |-> a.H, arr |-> [arr EXCEPT !.items = NULL], err |-> "ARRAY_OOM"]
    ELSE [H |-> a.H, arr |-> [arr EXCEPT !.items = a.p, !.cap = 4],
          err |-> "ARRAY_OK"]

\* items = JSON_REALLOC(...); if (arr->items == NULL) return ARRAY_OOM;
\* arr->items = items; arr->cap = new_cap: the test reads arr->items, the
\* old pointer, not what JSON_REALLOC returned (r)
json__array_unsigned_char_grow_more(r, arr) ==
    IF arr.items = NULL THEN [H |-> r.H, arr |-> arr, err |-> "ARRAY_OOM"]
    ELSE [H |-> r.H, arr |-> [arr EXCEPT !.items = r.p, !.cap = arr.cap * 2],
          err |-> "ARRAY_OK"]

\* static array_err json__array_unsigned_char_grow(arr)
json__array_unsigned_char_grow(H, arr) ==
    IF arr.items = NULL
    THEN json__array_unsigned_char_grow_first(JSON_MALLOC(H, [size |-> 4]), arr)
    ELSE json__array_unsigned_char_grow_more(
            JSON_REALLOC_bytes(H, arr.items, arr.cap * 2), arr)

RECURSIVE json__array_unsigned_char_grow_until(_, _, _)

\* if (err != ARRAY_OK) return err; else the next round of the loop
json__array_unsigned_char_grow_until_next(g, until) ==
    IF g.err # "ARRAY_OK" THEN g
    ELSE json__array_unsigned_char_grow_until(g.H, g.arr, until)

\* static array_err json__array_unsigned_char_grow_until(arr, until)
json__array_unsigned_char_grow_until(H, arr, until) ==
    IF arr.cap < until
    THEN json__array_unsigned_char_grow_until_next(
            json__array_unsigned_char_grow(H, arr), until)
    ELSE [H |-> H, arr |-> arr, err |-> "ARRAY_OK"]

\* arr->items[arr->len + i] = slice.items[i] for every i; arr->len +=
\* slice.len: a write through NULL or past the block is undefined
StoreBytes(g, slice) ==
    IF g.err # "ARRAY_OK" THEN g
    ELSE IF Len(slice) > 0
            /\ g.arr.len + Len(slice) > AllocatedBytes(g.H, g.arr.items)
    THEN [H |-> Undefined(g.H), arr |-> g.arr, err |-> "ARRAY_OK"]
    ELSE [H |-> g.H,
          arr |-> [g.arr EXCEPT !.elems = @ \o slice, !.len = @ + Len(slice)],
          err |-> "ARRAY_OK"]

\* static array_err json__array_unsigned_char_push(arr, item)
json__array_unsigned_char_push(H, arr, item) ==
    IF arr.cap <= arr.len
    THEN StoreBytes(json__array_unsigned_char_grow_until(H, arr, arr.len + 1),
                    << item >>)
    ELSE StoreBytes([H |-> H, arr |-> arr, err |-> "ARRAY_OK"], << item >>)

\* static array_err json__array_unsigned_char_append(arr, slice)
json__array_unsigned_char_append(H, arr, slice) ==
    IF arr.cap <= Len(slice) + arr.len
    THEN StoreBytes(json__array_unsigned_char_grow_until(
                        H, arr, Len(slice) + arr.len),
                    slice)
    ELSE StoreBytes([H |-> H, arr |-> arr, err |-> "ARRAY_OK"], slice)

\* ------------------------------------------------------------------
\* A caller that assembles a string in one byte array, with allocations
\* that may fail and a JSON_REALLOC that may move the block
\* ------------------------------------------------------------------

\* the push and append calls of one behaviour
MaxByteOps == 4

\* the allocation of a call that fails, counted from 1
MaxByteFailAt == 2

\* the bytes pushed
ByteItems == { 97, 98 }

\* the slices appended: "", "c" and "defgh"
ByteSlices == { << >>, << 99 >>, << 100, 101, 102, 103, 104 >> }

BytesInit == Init /\ shapes = DeepShapes

\* the call op(&arr, slice) returned r
BytesDone(op, slice, r, fail) ==
    /\ Commit(r.H)
    /\ buffer' = r.arr
    /\ last' = [op |-> op, slice |-> slice, err |-> r.err,
                fail |-> IF r.H.fail = 0 THEN fail ELSE 0,
                before |-> buffer, live |-> live]
    /\ nops' = nops + 1
    /\ UNCHANGED << obj, gone, tmp, abs, shapes, iterator, entries, lexer,
                    tokens >>

\* json__array_unsigned_char_push(&arr, item)
BytesPush(item, fail, reloc) ==
    /\ nops < MaxByteOps
    /\ ~ub
    /\ BytesDone("push", << item >>,
                 json__array_unsigned_char_push(Heap(fail, reloc, FALSE),
                                                buffer, item),
                 fail)

\* json__array_unsigned_char_append(&arr, slice)
BytesAppend(slice, fail, reloc) ==
    /\ nops < MaxByteOps
    /\ ~ub
    /\ BytesDone("append", slice,
                 json__array_unsigned_char_append(Heap(fail, reloc, FALSE),
                                                  buffer, slice),
                 fail)

NextBytes ==
    \/ \E item \in ByteItems, fail \in 0..MaxByteFailAt, reloc \in BOOLEAN :
            BytesPush(item, fail, reloc)
    \/ \E slice \in ByteSlices, fail \in 0..MaxByteFailAt, reloc \in BOOLEAN :
            BytesAppend(slice, fail, reloc)

SpecBytes == BytesInit /\ [][NextBytes]_vars

\* an allocation of the last push or append failed
ByteAllocationFailed ==
    /\ last.op \in {"push", "append"}
    /\ last.fail > 0

\* C39: when the allocator fails while the byte buffer grows, at the first
\* allocation or at a JSON_REALLOC enlargement, json__array_unsigned_char_push
\* and json__array_unsigned_char_append return ARRAY_OOM and leave the
\* buffer's items pointer, len and cap unchanged.
C39_ByteGrowFailure ==
    ByteAllocationFailed
    => /\ ~ub
       /\ last.err = "ARRAY_OOM"
       /\ buffer.items = last.before.items
       /\ buffer.len = last.before.len
       /\ buffer.cap = last.before.cap

====
